---- MODULE Spec2Model ----
(***************************************************************************)
(* A model of Polya's axiom-instantiation engine: the term algebra of      *)
(* terms.py (terms, scaled terms, keys, canonize), and the matcher, the    *)
(* unifier and the axiom module of function_module.py.                     *)
(***************************************************************************)
EXTENDS Integers, Sequences, FiniteSets, TLC

VARIABLES
    op,        \* the operation applied last ("init" before any)
    arg,       \* the input of the pure function a specification exercises
    res,       \* its result
    B,         \* the blackboard
    axioms,    \* FunctionModule.axioms
    pc,        \* position inside update_blackboard
    cur,       \* index of the axiom update_blackboard is working on
    pending,   \* clauses instantiate returned that are not asserted yet
    exc        \* the exception that left update_blackboard ("" when none)

vars == <<op, arg, res, B, axioms, pc, cur, pending, exc>>

(***************************************************************************)
(* fractions.Fraction: <<n, d>> with d > 0 and gcd(n, d) = 1.              *)
(***************************************************************************)
RECURSIVE GCD(_, _)
GCD(a, b) == IF b = 0 THEN a ELSE GCD(b, a % b)

IAbs(n) == IF n < 0 THEN -n ELSE n

Frac(n, d) ==
    LET g == GCD(IAbs(n), IAbs(d))
        s == IF d < 0 THEN -1 ELSE 1
    IN  <<(s * n) \div g, (s * d) \div g>>

FInt(n) == <<n, 1>>
F0 == FInt(0)
F1 == FInt(1)
FAdd(a, b) == Frac(a[1] * b[2] + b[1] * a[2], a[2] * b[2])
FMul(a, b) == Frac(a[1] * b[1], a[2] * b[2])
FNeg(a) == <<-a[1], a[2]>>
FSub(a, b) == FAdd(a, FNeg(b))
FDiv(a, b) == Frac(a[1] * b[2], a[2] * b[1])
FLt(a, b) == a[1] * b[2] < b[1] * a[2]
FAbs(a) == <<IAbs(a[1]), a[2]>>

RECURSIVE IPow(_, _)
IPow(b, e) == IF e = 0 THEN 1 ELSE b * IPow(b, e - 1)

\* Fraction ** int, for a base that is not 0 when the exponent is negative
FPow(a, e) ==
    IF e >= 0 THEN <<IPow(a[1], e), IPow(a[2], e)>>
    ELSE Frac(IPow(a[2], -e), IPow(a[1], -e))

(***************************************************************************)
(* Python values.  One record shape for all of them:                       *)
(*   kind "num"   a number, c                                              *)
(*   kind "term"  a Term: tag and d are the first two entries of its key,  *)
(*                args its arguments                                       *)
(*   kind "sterm" an STerm: c its coeff, args[1] the term its key is       *)
(*                built from (terms.py:489)                                *)
(*   kind "pair"  a MulPair: c its exponent, args[1] its term              *)
(*   kind "none"  None                                                     *)
(*   kind "err"   a raised exception, err its class                        *)
(* Two values have the same key exactly when they are equal records.       *)
(***************************************************************************)
Val(kind, tag, d, c, args, err) ==
    [kind |-> kind, tag |-> tag, d |-> d, c |-> c, args |-> args, err |-> err]

Num(c) == Val("num", 0, 0, c, <<>>, "")
NoneVal == Val("none", 0, 0, F0, <<>>, "")
Raise(e) == Val("err", 0, 0, F0, <<>>, e)

TagOne == 10
TagVar == 20
TagIVar == 30
TagUVar == 40
TagAdd == 50
TagMul == 60
TagAbs == 70
TagFunc == 90

Term(tag, d, args) == Val("term", tag, d, F0, args, "")
One == Term(TagOne, 0, <<>>)
Var(name) == Term(TagVar, name, <<>>)
IVar(index) == Term(TagIVar, index, <<>>)
UVar(index) == Term(TagUVar, index, <<>>)
AddTerm(args) == Term(TagAdd, 0, args)
MulTerm(args) == Term(TagMul, 0, args)
AbsTerm(a) == Term(TagAbs, 0, <<a>>)
FuncTerm(name, args) == Term(TagFunc, name, args)

STerm(coeff, term) == Val("sterm", 0, 0, coeff, <<term>>, "")
MulPair(term, exponent) == Val("pair", 0, 0, FInt(exponent), <<term>>, "")
zero == STerm(F0, One)

IsErr(v) == v.kind = "err"
IsTerm(v) == v.kind = "term"
IsSTerm(v) == v.kind = "sterm"
IsAtom(v) == v.kind = "term" /\ v.tag <= TagUVar
IsAdd(v) == v.kind = "term" /\ v.tag = TagAdd
IsMul(v) == v.kind = "term" /\ v.tag = TagMul
IsFunc(v) == v.kind = "term" /\ v.tag = TagFunc
IsIVar(v) == v.kind = "term" /\ v.tag = TagIVar

\* STerm.term: One when the coefficient is 0
TermOf(s) == IF s.c = F0 THEN One ELSE s.args[1]
\* MulPair.term, MulPair.exponent
PTerm(p) == p.args[1]
PExp(p) == p.c[1]

\* STerm(coeff, t) for a computed t: a raised exception passes through,
\* and None has no key
MkSTerm(coeff, t) ==
    IF IsErr(t) THEN t
    ELSE IF t.kind \in {"none", "num"} THEN Raise("AttributeError")
    ELSE STerm(coeff, t)

\* the first raised exception among the elements of a sequence, if any
FirstErr(s) ==
    IF \E i \in 1..Len(s) : IsErr(s[i])
    THEN s[CHOOSE i \in 1..Len(s) : IsErr(s[i]) /\ \A j \in 1..(i-1) : ~IsErr(s[j])]
    ELSE NoneVal

(***************************************************************************)
(* Key order (Python 2 tuple comparison of the keys).                      *)
(***************************************************************************)
RECURSIVE Cmp(_, _)
RECURSIVE CmpSeq(_, _, _)
CmpSeq(s, t, i) ==
    IF i > Len(s) /\ i > Len(t) THEN 0
    ELSE IF i > Len(s) THEN -1
    ELSE IF i > Len(t) THEN 1
    ELSE LET c == Cmp(s[i], t[i]) IN IF c # 0 THEN c ELSE CmpSeq(s, t, i + 1)

Cmp(a, b) ==
    IF a = b THEN 0
    ELSE IF IsTerm(a) /\ IsTerm(b) THEN
        IF a.tag # b.tag THEN (IF a.tag < b.tag THEN -1 ELSE 1)
        ELSE IF a.d # b.d THEN (IF a.d < b.d THEN -1 ELSE 1)
        ELSE CmpSeq(a.args, b.args, 1)
    ELSE IF IsTerm(a) THEN -1
    ELSE IF IsTerm(b) THEN 1
    ELSE LET c == Cmp(a.args[1], b.args[1])
         IN  IF c # 0 THEN c ELSE IF FLt(a.c, b.c) THEN -1 ELSE 1

\* sorted(args, key=lambda a: a.key)
RECURSIVE Insert(_, _)
Insert(s, x) ==
    IF s = <<>> THEN <<x>>
    ELSE IF Cmp(x, s[Len(s)]) >= 0 THEN Append(s, x)
    ELSE Append(Insert(SubSeq(s, 1, Len(s) - 1), x), s[Len(s)])

RECURSIVE SortedByKey(_)
SortedByKey(s) ==
    IF s = <<>> THEN <<>>
    ELSE Insert(SortedByKey(SubSeq(s, 1, Len(s) - 1)), s[Len(s)])

(***************************************************************************)
(* The arithmetic operators of terms.py, which build terms.                *)
(***************************************************************************)
\* list.remove(a) in AddTerm.__add__ (terms.py:341).  list.remove takes out
\* the first element e with "e is a or e == a"; STerm.__eq__ (terms.py:606)
\* builds a TermComparison, which is true, so the element taken out is the
\* first of the list, whichever a is.
ListRemoveSTerm(args, i) == Tail(args)

\* list.remove(a) in MulTerm.__mul__ (terms.py:400): MulPair has no __eq__,
\* so the element taken out is a itself.
ListRemovePair(args, i) == SubSeq(args, 1, i - 1) \o SubSeq(args, i + 1, Len(args))

\* the index of the first element of args whose term has the key of b's term
\* (0 when there is none)
FirstSameTerm(args, b) ==
    IF \E i \in 1..Len(args) : TermOf(args[i]) = TermOf(b)
    THEN CHOOSE i \in 1..Len(args) :
            /\ TermOf(args[i]) = TermOf(b)
            /\ \A j \in 1..(i-1) : TermOf(args[j]) # TermOf(b)
    ELSE 0

FirstSamePair(args, b) ==
    IF \E i \in 1..Len(args) : PTerm(args[i]) = PTerm(b)
    THEN CHOOSE i \in 1..Len(args) :
            /\ PTerm(args[i]) = PTerm(b)
            /\ \A j \in 1..(i-1) : PTerm(args[j]) # PTerm(b)
    ELSE 0

\* terms.py:338-346: add each argument of args2 (from index k on) to args
RECURSIVE AddArgs(_, _, _)
AddArgs(args, args2, k) ==
    IF k > Len(args2) THEN args
    ELSE LET b == args2[k]
             i == FirstSameTerm(args, b)
             next ==
                IF i = 0 THEN Append(args, b)
                ELSE LET a == args[i]
                         rest == ListRemoveSTerm(args, i)
                     IN  IF a.c # FNeg(b.c)
                         THEN Append(rest, STerm(FAdd(a.c, b.c), TermOf(a)))
                         ELSE rest
         IN  AddArgs(next, args2, k + 1)

\* terms.py:397-405: multiply args by each argument of args2 (from index k on)
RECURSIVE MulArgs(_, _, _)
MulArgs(args, args2, k) ==
    IF k > Len(args2) THEN args
    ELSE LET b == args2[k]
             i == FirstSamePair(args, b)
             next ==
                IF i = 0 THEN Append(args, b)
                ELSE LET a == args[i]
                         rest == ListRemovePair(args, i)
                     IN  IF PExp(a) # -PExp(b)
                         THEN Append(rest, MulPair(PTerm(a), PExp(a) + PExp(b)))
                         ELSE rest
         IN  MulArgs(next, args2, k + 1)

\* STerm.__mul__ with a number (terms.py:561-562)
STermScale(s, c) == STerm(FMul(s.c, c), TermOf(s))

RECURSIVE PyAdd(_, _)
RECURSIVE PyMul(_, _)
RECURSIVE PyPow(_, _)

\* Term.__add__ (terms.py:120-134), self not an AddTerm
TermAdd(self, other) ==
    IF other.kind = "num" THEN PyAdd(self, STerm(other.c, One))
    ELSE IF IsSTerm(other) THEN PyAdd(other, self)
    ELSE IF IsTerm(other) THEN
        IF IsAdd(other) THEN PyAdd(other, self)
        ELSE IF self = other THEN STerm(FInt(2), self)
        ELSE AddTerm(<<STerm(F1, self), STerm(F1, other)>>)
    ELSE Raise("Error")

\* AddTerm.__add__ (terms.py:319-347)
AddTermAdd(self, other) ==
    IF ~(other.kind \in {"num", "term", "sterm"}) THEN Raise("Error")
    ELSE
    LET args2 ==
            IF other.kind = "num"
            THEN (IF other.c # F0 THEN <<STerm(other.c, One)>> ELSE <<>>)
            ELSE IF IsAdd(other) THEN other.args
            ELSE IF IsTerm(other) THEN <<STerm(F1, other)>>
            ELSE IF other.c = F0 THEN <<>>
            ELSE IF IsAdd(TermOf(other))
                 THEN [k \in 1..Len(TermOf(other).args) |->
                          STermScale(TermOf(other).args[k], other.c)]
            ELSE <<other>>
        args == AddArgs(self.args, args2, 1)
    IN  IF args # <<>> THEN AddTerm(args) ELSE zero

\* STerm.__add__ (terms.py:521-549).  "self.coeff * self.term + other" with
\* an AddTerm for self.term builds self again (Term.__mul__, terms.py:144)
\* and adds other to it: the call never returns, Python raises RuntimeError.
STermAdd(self, other) ==
    IF self.c = F0 THEN other
    ELSE IF IsAdd(TermOf(self)) THEN Raise("RuntimeError")
    ELSE IF other.kind = "num" THEN PyAdd(self, STerm(other.c, One))
    ELSE IF IsAdd(other) THEN PyAdd(other, self)
    ELSE IF IsTerm(other) THEN
        IF TermOf(self) = other THEN STerm(FAdd(self.c, F1), TermOf(self))
        ELSE AddTerm(<<self, STerm(F1, other)>>)
    ELSE IF IsSTerm(other) THEN
        IF other.c = F0 THEN self
        ELSE IF IsAdd(TermOf(other)) THEN Raise("RuntimeError")
        ELSE IF TermOf(self) = TermOf(other) THEN
            IF FAdd(self.c, other.c) = F0 THEN zero
            ELSE STerm(FAdd(self.c, other.c), TermOf(self))
        ELSE AddTerm(<<self, other>>)
    ELSE Raise("Error")

PyAdd(a, b) ==
    IF IsErr(a) THEN a
    ELSE IF IsErr(b) THEN b
    ELSE IF a.kind = "num" THEN
        IF b.kind = "num" THEN Num(FAdd(a.c, b.c))
        ELSE IF b.kind \in {"term", "sterm"} THEN PyAdd(b, a)  \* __radd__
        ELSE Raise("TypeError")
    ELSE IF IsAdd(a) THEN AddTermAdd(a, b)
    ELSE IF IsTerm(a) THEN TermAdd(a, b)
    ELSE IF IsSTerm(a) THEN STermAdd(a, b)
    ELSE Raise("TypeError")

\* Term.__mul__ (terms.py:139-158), self not a MulTerm
TermMul(self, other) ==
    IF self = One THEN other
    ELSE IF other.kind = "num" THEN STerm(other.c, self)
    ELSE IF IsTerm(other) THEN
        IF other = One THEN self
        ELSE IF IsMul(other) THEN PyMul(other, self)
        ELSE IF self = other THEN MulPair(self, 2)
        ELSE MulTerm(<<MulPair(self, 1), MulPair(other, 1)>>)
    ELSE IF IsSTerm(other) THEN PyMul(other, self)
    ELSE Raise("Error")

\* MulTerm.__mul__ (terms.py:375-410)
MulTermMul(self, other) ==
    IF ~(other.kind \in {"num", "term", "sterm"}) THEN Raise("Error")
    ELSE
    LET scalar == IF other.kind \in {"num", "sterm"} THEN other.c ELSE F1
        args2 ==
            IF other.kind = "num" THEN <<>>
            ELSE IF other = One THEN <<>>
            ELSE IF IsMul(other) THEN other.args
            ELSE IF IsTerm(other) THEN <<MulPair(other, 1)>>
            ELSE IF IsMul(TermOf(other)) THEN TermOf(other).args
            ELSE <<MulPair(TermOf(other), 1)>>
        args == MulArgs(self.args, args2, 1)
        result == IF args # <<>> THEN MulTerm(args) ELSE One
    IN  IF scalar = F0 THEN zero
        ELSE IF scalar = F1 THEN result
        ELSE STerm(scalar, result)

\* STerm.__mul__ (terms.py:560-566); it returns None for any other operand
STermMul(self, other) ==
    IF other.kind = "num" THEN STermScale(self, other.c)
    ELSE IF IsTerm(other) THEN MkSTerm(self.c, PyMul(TermOf(self), other))
    ELSE IF IsSTerm(other)
         THEN MkSTerm(FMul(self.c, other.c), PyMul(TermOf(self), TermOf(other)))
    ELSE NoneVal

PyMul(a, b) ==
    IF IsErr(a) THEN a
    ELSE IF IsErr(b) THEN b
    ELSE IF a.kind = "num" THEN
        IF b.kind = "num" THEN Num(FMul(a.c, b.c))
        ELSE IF b.kind \in {"term", "sterm"} THEN PyMul(b, a)  \* __rmul__
        ELSE Raise("TypeError")
    ELSE IF IsMul(a) THEN MulTermMul(a, b)
    ELSE IF IsTerm(a) THEN TermMul(a, b)
    ELSE IF IsSTerm(a) THEN STermMul(a, b)
    ELSE Raise("TypeError")

\* a ** n for an integer n: Term.__pow__ (terms.py:186-188), MulTerm.__pow__
\* (terms.py:412-413), STerm.__pow__ (terms.py:585-589), MulPair.__pow__
\* (terms.py:646-647)
PyPow(a, n) ==
    IF IsErr(a) THEN a
    ELSE IF IsMul(a)
         THEN MulTerm([k \in 1..Len(a.args) |->
                          MulPair(PTerm(a.args[k]), PExp(a.args[k]) * n)])
    ELSE IF IsTerm(a) THEN MulTerm(<<MulPair(a, n)>>)
    ELSE IF IsSTerm(a) THEN
        IF a.c = F0 /\ n < 0 THEN Raise("ZeroDivisionError")
        ELSE MkSTerm(FPow(a.c, n), PyPow(TermOf(a), n))
    ELSE IF a.kind = "pair" THEN MulPair(PTerm(a), PExp(a) * n)
    ELSE IF a.kind = "num" THEN
        IF a.c = F0 /\ n < 0 THEN Raise("ZeroDivisionError")
        ELSE Num(FPow(a.c, n))
    ELSE Raise("TypeError")

\* STerm.__div__ by a number (terms.py:571-576): dividing by 0 builds an
\* Error without raising it, and returns None
STermDiv(s, c) ==
    IF c = F0 THEN NoneVal ELSE STerm(FDiv(s.c, c), TermOf(s))

\* abs(): Term.__abs__ (terms.py:190-191), AbsTerm.__abs__ (terms.py:427-428),
\* STerm.__abs__ (terms.py:591-592)
RECURSIVE PyAbs(_)
PyAbs(a) ==
    IF IsErr(a) THEN a
    ELSE IF IsTerm(a) THEN (IF a.tag = TagAbs THEN a ELSE AbsTerm(a))
    ELSE IF IsSTerm(a) THEN MkSTerm(FAbs(a.c), PyAbs(TermOf(a)))
    ELSE Raise("TypeError")

(***************************************************************************)
(* canonize                                                                *)
(***************************************************************************)
\* reduce(lambda x, y: x + y, s, acc)
RECURSIVE ReduceAdd(_, _, _)
ReduceAdd(acc, s, k) ==
    IF k > Len(s) THEN acc ELSE ReduceAdd(PyAdd(acc, s[k]), s, k + 1)

\* reduce(lambda x, y: x * y, s, acc)
RECURSIVE ReduceMul(_, _, _)
ReduceMul(acc, s, k) ==
    IF k > Len(s) THEN acc ELSE ReduceMul(PyMul(acc, s[k]), s, k + 1)

RECURSIVE FProd(_, _)
FProd(s, k) == IF k > Len(s) THEN F1 ELSE FMul(s[k].c, FProd(s, k + 1))

\* AddTerm.canonize, from the canonized arguments on (terms.py:313-317)
AddCanonizeFrom(cargs) ==
    LET new_addterm == ReduceAdd(Num(F0), cargs, 1)
    IN  IF IsErr(new_addterm) THEN new_addterm
        ELSE IF ~IsTerm(new_addterm) THEN Raise("AttributeError")
        ELSE LET new_args == SortedByKey(new_addterm.args)
                 first_coeff == new_args[1].c
                 new_args2 == [k \in 1..Len(new_args) |->
                                  STermDiv(new_args[k], first_coeff)]
             IN  STerm(first_coeff, AddTerm(new_args2))

\* MulTerm.canonize, from the canonized arguments on (terms.py:370-373)
MulCanonizeFrom(cargs) ==
    LET scalar == FProd(cargs, 1)
        new_multerm == ReduceMul(One, [k \in 1..Len(cargs) |-> TermOf(cargs[k])], 1)
    IN  IF IsErr(new_multerm) THEN new_multerm
        ELSE IF ~IsMul(new_multerm) THEN Raise("AttributeError")
        ELSE STerm(scalar, MulTerm(SortedByKey(new_multerm.args)))

\* canonize of a Term (terms.py:222, 311, 368, 424, 449), of an STerm
\* (terms.py:511-513) and of a MulPair (terms.py:637-638)
RECURSIVE Canonize(_)
Canonize(v) ==
    IF IsErr(v) THEN v
    ELSE IF IsSTerm(v) THEN
        LET t == Canonize(TermOf(v))
        IN  IF IsErr(t) THEN t ELSE PyMul(t, Num(v.c))
    ELSE IF v.kind = "pair" THEN PyPow(Canonize(PTerm(v)), PExp(v))
    ELSE IF ~IsTerm(v) THEN Raise("AttributeError")
    ELSE IF IsAtom(v) THEN STerm(F1, v)
    ELSE LET cargs == [k \in 1..Len(v.args) |-> Canonize(v.args[k])]
             e == FirstErr(cargs)
         IN  IF IsErr(e) THEN e
             ELSE IF v.tag = TagAdd THEN AddCanonizeFrom(cargs)
             ELSE IF v.tag = TagMul THEN MulCanonizeFrom(cargs)
             ELSE IF v.tag = TagAbs THEN PyAbs(cargs[1])
             ELSE STerm(F1, FuncTerm(v.d, cargs))

(***************************************************************************)
(* reduce_term and substitute (function_module.py:28-77).  An environment  *)
(* is a function from UVar indices to pairs <<coeff, IVar index>>; the     *)
(* result is the pair (STerm, flag) as a record.                           *)
(***************************************************************************)
Pair(s, flag) == [s |-> s, flag |-> flag]
Failed(e) == Pair(e, FALSE)
\* "return s, flag", unless computing s raised
Return(s, flag) == IF IsErr(s) THEN Failed(s) ELSE Pair(s, flag)

\* the first raised exception among the STerms of a sequence of results
FirstFailed(l) == FirstErr([k \in 1..Len(l) |-> l[k].s])

\* reduce(rfunc, l) for rfunc = (s1 + s2, flag1 and flag2)
RECURSIVE FoldSum(_, _, _)
FoldSum(l, acc, k) ==
    IF k > Len(l) THEN acc
    ELSE FoldSum(l, Pair(PyAdd(acc.s, l[k].s), acc.flag /\ l[k].flag), k + 1)

\* reduce(rfunc, l) for rfunc = (s1 * s2, flag1 and flag2)
RECURSIVE FoldProd(_, _, _)
FoldProd(l, acc, k) ==
    IF k > Len(l) THEN acc
    ELSE FoldProd(l, Pair(PyMul(acc.s, l[k].s), acc.flag /\ l[k].flag), k + 1)

\* a UVar left in place although env does not bind it, reported as replaced
ReduceUVarFlagSet(term, env) ==
    IF term.d \in DOMAIN env
    THEN Pair(STerm(env[term.d][1], IVar(env[term.d][2])), TRUE)
    ELSE Pair(STerm(F1, term), TRUE)

\* the UVar branch (function_module.py:46-51)
ReduceUVar(term, env) ==
    IF term.d \in DOMAIN env
    THEN Pair(STerm(env[term.d][1], IVar(env[term.d][2])), TRUE)
    ELSE Pair(STerm(F1, term), FALSE)

RECURSIVE reduce_term(_, _)
reduce_term(term, env) ==
    IF IsSTerm(term) THEN
        LET l == reduce_term(TermOf(term), env)
        IN  IF IsErr(l.s) THEN l
            ELSE Return(MkSTerm(FMul(term.c, l.s.c), TermOf(l.s)), l.flag)
    ELSE IF ~IsTerm(term) THEN Failed(Raise("Exception"))
    ELSE IF term.tag = TagUVar THEN ReduceUVar(term, env)
    ELSE IF IsAtom(term) THEN Pair(STerm(F1, term), TRUE)
    ELSE IF IsAdd(term) THEN
        LET l == [k \in 1..Len(term.args) |->
                     LET a == reduce_term(TermOf(term.args[k]), env)
                     IN  Pair(PyMul(Num(term.args[k].c), a.s), a.flag)]
            t == FoldSum(l, l[1], 2)
        IN  IF Len(l) = 0 THEN Failed(Raise("TypeError"))
            ELSE IF IsErr(FirstFailed(l)) THEN Failed(FirstFailed(l))
            ELSE Return(MkSTerm(F1, t.s), t.flag)
    ELSE IF IsMul(term) THEN
        LET l == [k \in 1..Len(term.args) |->
                     LET a == reduce_term(PTerm(term.args[k]), env)
                     IN  Pair(PyPow(a.s, PExp(term.args[k])), a.flag)]
            t == FoldProd(l, l[1], 2)
        IN  IF Len(l) = 0 THEN Failed(Raise("TypeError"))
            ELSE IF IsErr(FirstFailed(l)) THEN Failed(FirstFailed(l))
            ELSE Return(MkSTerm(F1, t.s), t.flag)
    ELSE IF IsFunc(term) THEN
        LET l == [k \in 1..Len(term.args) |->
                     IF ~IsSTerm(term.args[k]) THEN Failed(Raise("AttributeError"))
                     ELSE LET a == reduce_term(TermOf(term.args[k]), env)
                          IN  Pair(PyMul(Num(term.args[k].c), a.s), a.flag)]
        IN  IF IsErr(FirstFailed(l)) THEN Failed(FirstFailed(l))
            ELSE Pair(STerm(F1, FuncTerm(term.d, [k \in 1..Len(l) |-> l[k].s])),
                      \A k \in 1..Len(l) : l[k].flag)
    ELSE Failed(Raise("Exception"))

\* substitute (function_module.py:28-32)
substitute(term, u_index, coeff, i_index) ==
    reduce_term(term, (u_index :> <<coeff, i_index>>))


(***************************************************************************)
(* The blackboard.  Its code is not part of the sources; it is modelled    *)
(* from the interface the specification gives (spec 4.2).  Problem term    *)
(* t_i is term_defs[i + 1].  equalities is the sequence of facts           *)
(* <<i, j, c>>, i < j, meaning t_i = c * t_j, in the order get_equalities  *)
(* yields them; zero_equalities is the sequence of indices known to be 0;  *)
(* nonzero is the set of indices known to differ from 0; clauses is the    *)
(* sequence of clauses asserted so far.                                    *)
(***************************************************************************)
Blackboard(defs, eqs, zeros, nonzero) ==
    [num_terms |-> Len(defs), term_defs |-> defs, equalities |-> eqs,
     zero_equalities |-> zeros, nonzero |-> nonzero, clauses |-> <<>>]

Range(f) == {f[k] : k \in DOMAIN f}

\* B.has_name(term): (True, index) or (False, -1)
has_name(Bd, term) ==
    IF \E k \in 1..Bd.num_terms : Bd.term_defs[k] = term
    THEN <<TRUE, (CHOOSE k \in 1..Bd.num_terms : Bd.term_defs[k] = term) - 1>>
    ELSE <<FALSE, -1>>

\* B.term_name(term): the IVar naming term, interned if absent; the pair
\* <<blackboard, index>>
term_name(Bd, term) ==
    IF IsIVar(term) THEN <<Bd, term.d>>
    ELSE IF has_name(Bd, term)[1] THEN <<Bd, has_name(Bd, term)[2]>>
    ELSE <<[Bd EXCEPT !.num_terms = @ + 1, !.term_defs = Append(@, term)],
           Bd.num_terms>>

\* B.get_equalities(): facts t_i = c * t_j, and t_i = 0 with c = 0
get_equalities(Bd) ==
    [k \in 1..Len(Bd.equalities) |->
        [i |-> Bd.equalities[k][1], c |-> Bd.equalities[k][3], j |-> Bd.equalities[k][2]]]
    \o [k \in 1..Len(Bd.zero_equalities) |->
        [i |-> Bd.zero_equalities[k], c |-> F0, j |-> 0]]

\* p in B.equalities, B.equalities[p]
InEqualities(Bd, i, j) == \E k \in 1..Len(Bd.equalities) :
    Bd.equalities[k][1] = i /\ Bd.equalities[k][2] = j
EqualityCoeff(Bd, i, j) ==
    Bd.equalities[CHOOSE k \in 1..Len(Bd.equalities) :
                      Bd.equalities[k][1] = i /\ Bd.equalities[k][2] = j][3]

\* B.implies(i, NE, 0, 0)
ImpliesNonzero(Bd, i) == i \in Bd.nonzero

(***************************************************************************)
(* Vectors and pivoting (function_module.py:84-119).  A row is a sequence  *)
(* of rationals; Python's column k is position k + 1.                      *)
(***************************************************************************)
add_list(l1, l2) == [k \in 1..Len(l1) |-> FAdd(l1[k], l2[k])]

scale_list(c, l) == [k \in 1..Len(l) |-> FMul(c, l[k])]

\* [row for row in rows if row is not r], r the row at position p
Without(rows, p) == [k \in 1..(Len(rows) - 1) |-> IF k < p THEN rows[k] ELSE rows[k + 1]]

\* the rows an elimination returns, or the exception it raises
Rows(rows) == [err |-> "", rows |-> rows]
RowsRaise(e) == [err |-> e, rows |-> <<>>]

\* elim_var (function_module.py:94-101)
elim_var(i, pivot, rows) ==
    IF pivot[i + 1] = F0 THEN RowsRaise("Exception")
    ELSE Rows([k \in 1..Len(rows) |->
                  add_list(rows[k],
                           scale_list(FNeg(FDiv(rows[k][i + 1], pivot[i + 1])), pivot))])

\* elim_var_mul (function_module.py:104-119).  pivot[0] ** scale for
\* pivot[0] = 1 is 1 (the float 1.0 when scale is not an integer).
elim_var_mul(i, pivot, rows) ==
    IF pivot[i + 1] = F0 THEN RowsRaise("Exception")
    ELSE LET scale(r) == FNeg(FDiv(r[i + 1], pivot[i + 1]))
             irrational(r) == pivot[1] # F1 /\ scale(r)[2] # 1
             power(r) == IF pivot[1] = F1 THEN F1 ELSE FPow(pivot[1], scale(r)[1])
         IN  IF \E k \in 1..Len(rows) : irrational(rows[k])
             THEN RowsRaise("NoTermException")
             ELSE Rows([k \in 1..Len(rows) |->
                           <<FMul(rows[k][1], power(rows[k]))>>
                               \o add_list(Tail(rows[k]),
                                           scale_list(scale(rows[k]), Tail(pivot)))])


(***************************************************************************)
(* The matcher: find_problem_term, add_fm_eq_elim, mul_fm_eq_elim          *)
(* (function_module.py:122-346).  A call returns (c, i), or raises; the    *)
(* blackboard it leaves behind is part of the result, since term_name may  *)
(* intern a term.                                                          *)
(***************************************************************************)
Found(c, i, Bd) == [err |-> "", c |-> c, i |-> i, B |-> Bd]
Raised(e, Bd) == [err |-> e, c |-> F0, i |-> -1, B |-> Bd]

\* next(... for ... if ...): the least of the positions S that pass the
\* test, 0 for StopIteration
FirstPos(S) ==
    IF S = {} THEN 0
    ELSE CHOOSE k \in S : \A m \in S : k <= m

\* len([k for k in row if k != 0])
NonzeroCount(row) == Cardinality({k \in 1..Len(row) : row[k] # F0})

\* a row of zeros with the entries of the sequence sets, <<column, value>>,
\* assigned in order
RECURSIVE RowWith(_, _, _)
RowWith(row, sets, k) ==
    IF k > Len(sets) THEN row
    ELSE RowWith([row EXCEPT ![sets[k][1] + 1] = sets[k][2]], sets, k + 1)
ZeroRow(n) == [k \in 1..n |-> F0]

\* the inner sweep of add_fm_eq_elim (function_module.py:160-166)
RECURSIVE AddSweep(_, _, _)
AddSweep(rows_j, j, n) ==
    IF j >= n THEN rows_j
    ELSE LET pos == FirstPos({k \in 1..Len(rows_j) :
                                  rows_j[k][j + 1] # F0 /\ rows_j[k][n + 1] = F0})
         IN  IF pos = 0 THEN AddSweep(rows_j, j + 1, n)
             ELSE AddSweep(elim_var(j, rows_j[pos], Without(rows_j, pos)).rows, j + 1, n)

\* the rest of one pass of the loop of add_fm_eq_elim once row is chosen
\* (function_module.py:168-186)
RECURSIVE AddLoop(_, _, _, _, _)
AddRow(rows_i, row, i, n, coeff, Bd) ==
    LET l == NonzeroCount(row)
        ind == FirstPos({k \in 1..Len(row) : row[k] # F0}) - 1
        pos == FirstPos({k \in 1..Len(rows_i) :
                            rows_i[k][i + 1] # F0 /\ rows_i[k][n + 1] = F0})
    IN  IF l = 1 THEN Found(F0, 0, Bd)
        ELSE IF l = 2
        THEN Found(FMul(FNeg(FDiv(row[ind + 1], row[n + 1])), coeff), ind, Bd)
        ELSE IF pos # 0
        THEN AddLoop(elim_var(i, rows_i[pos], Without(rows_i, pos)).rows,
                     i + 1, n, coeff, Bd)
        ELSE IF rows_i[Len(rows_i)][i + 1] # F0
        THEN Raised("NoTermException", Bd)
        ELSE AddLoop(rows_i, i + 1, n, coeff, Bd)

\* row = next(r for r in rows_j if r[-1] != 0) (function_module.py:168)
AddStep(rows_i, rows_j, i, n, coeff, Bd) ==
    AddRow(rows_i, rows_j[FirstPos({k \in 1..Len(rows_j) : rows_j[k][n + 1] # F0})],
           i, n, coeff, Bd)

\* the elimination loop of add_fm_eq_elim (function_module.py:158-186)
AddLoop(rows_i, i, n, coeff, Bd) ==
    IF i >= n THEN Raised("NoTermException", Bd)
    ELSE AddStep(rows_i, AddSweep(rows_i, i + 1, n), i, n, coeff, Bd)

\* the matrix of add_fm_eq_elim (function_module.py:135-156); nargs is the
\* sequence of pairs <<c, i>>
AddMatrix(nargs, Bd) ==
    LET n == Bd.num_terms
        eqs == get_equalities(Bd)
        urow == RowWith([ZeroRow(n + 1) EXCEPT ![n + 1] = FNeg(F1)],
                        [k \in 1..Len(nargs) |-> <<nargs[k][2], nargs[k][1]>>], 1)
        eqrow(tc) == RowWith(ZeroRow(n + 1),
                             <<<<tc.i, FNeg(F1)>>,
                               <<IF tc.c = F0 THEN n ELSE tc.j, tc.c>>>>, 1)
        defrow(i) == RowWith(ZeroRow(n + 1),
                             <<<<i, FNeg(F1)>>>>
                                 \o [k \in 1..Len(Bd.term_defs[i + 1].args) |->
                                        <<TermOf(Bd.term_defs[i + 1].args[k]).d,
                                          Bd.term_defs[i + 1].args[k].c>>], 1)
        adds == SelectSeq([k \in 1..n |-> k - 1], LAMBDA i : IsAdd(Bd.term_defs[i + 1]))
    IN  [k \in 1..Len(eqs) |-> eqrow(eqs[k])]
            \o [k \in 1..Len(adds) |-> defrow(adds[k])]
            \o <<urow>>


\* The local variable r of mul_fm_eq_elim: unbound, or bound to a row;
\* pos is the position of that row object in rows_i, 0 when it is not one
\* of the row objects of rows_i.
Unbound == [bound |-> FALSE, v |-> <<>>, pos |-> 0]
BoundTo(v, pos) == [bound |-> TRUE, v |-> v, pos |-> pos]

\* the pivot choice of mul_fm_eq_elim (function_module.py:248-254,
\* 273-278): a row with constant 1 first, any row otherwise
PivotPos(rows, j, n) ==
    LET first == FirstPos({k \in 1..Len(rows) :
                              rows[k][j + 1] # F0 /\ rows[k][n + 1] = F0 /\ rows[k][1] = F1})
    IN  IF first # 0 THEN first
        ELSE FirstPos({k \in 1..Len(rows) : rows[k][j + 1] # F0 /\ rows[k][n + 1] = F0})

\* the inner sweep of mul_fm_eq_elim (function_module.py:247-256); shared
\* tells whether rows_j still holds the row objects of rows_i
RECURSIVE MulSweep(_, _, _, _, _)

\* rows_j = elim_var_mul(j, r, ...) done (function_module.py:256): pivot is
\* the row r, pos its position in rows_i or 0
MulSweepOn(next, pivot, pos, j, n, r) ==
    IF next.err # "" THEN [err |-> next.err, rows |-> <<>>, r |-> r]
    ELSE MulSweep(next.rows, j + 1, n, BoundTo(pivot, pos), FALSE)

\* one pass of the inner sweep, pos the pivot choice (0: no pivot)
MulSweepAt(rows_j, j, n, r, shared, pos) ==
    IF pos = 0 THEN MulSweep(rows_j, j + 1, n, r, shared)
    ELSE MulSweepOn(elim_var_mul(j, rows_j[pos], Without(rows_j, pos)),
                    rows_j[pos], IF shared THEN pos ELSE 0, j, n, r)

MulSweep(rows_j, j, n, r, shared) ==
    IF j >= n THEN [err |-> "", rows |-> rows_j, r |-> r]
    ELSE MulSweepAt(rows_j, j, n, r, shared, PivotPos(rows_j, j, n))

RECURSIVE MulLoop(_, _, _, _, _, _)

\* rows_i = elim_var_mul(i, r, ...) done (function_module.py:282)
MulNext(next, r, i, n, coeff, Bd) ==
    IF next.err # "" THEN Raised(next.err, Bd)
    ELSE MulLoop(next.rows, i + 1, n, coeff, [r EXCEPT !.pos = 0], Bd)

\* rows_i.remove(r); elim_var_mul(i, r, rows_i) (function_module.py:282):
\* r is read, bound or not
MulPivot(rows_i, r, i, n, coeff, Bd) ==
    IF ~r.bound THEN Raised("UnboundLocalError", Bd)
    ELSE MulNext(elim_var_mul(i, r.v,
                              IF r.pos # 0 THEN Without(rows_i, r.pos) ELSE rows_i),
                 r, i, n, coeff, Bd)

\* the rest of one pass of the loop of mul_fm_eq_elim once row is chosen
\* (function_module.py:258-282); r is the value the sweep left
MulRow(rows_i, row, r, i, n, coeff, Bd) ==
    LET l == NonzeroCount(row)
        coeff3 == IF l = 3 /\ row[1] # F0 THEN FMul(coeff, row[1]) ELSE coeff
        ind == FirstPos({k \in 1..(Len(row) - 1) : row[k + 1] # F0})
        pos == PivotPos(rows_i, i, n)
    IN  IF l = 1 \/ row[1] = F0 THEN Found(F0, 0, Bd)
        ELSE IF l = 2 THEN Found(FMul(coeff, row[1]), 0, Bd)
        ELSE IF l = 3 /\ row[ind + 1] = F1 THEN Found(coeff3, ind, Bd)
        ELSE IF pos = 0 /\ rows_i[Len(rows_i)][i + 1] # F0
        THEN Raised("NoTermException", Bd)
        ELSE MulPivot(rows_i, IF pos # 0 THEN BoundTo(rows_i[pos], pos) ELSE r,
                      i, n, coeff3, Bd)

\* for row in (r for r in rows_j if r[-1] != 0) (function_module.py:258):
\* the row of u is the only row with a last entry other than 0
MulStep(rows_i, sweep, i, n, coeff, Bd) ==
    IF sweep.err # "" THEN Raised(sweep.err, Bd)
    ELSE MulRow(rows_i,
                sweep.rows[FirstPos({k \in 1..Len(sweep.rows) : sweep.rows[k][n + 1] # F0})],
                sweep.r, i, n, coeff, Bd)

\* the elimination loop of mul_fm_eq_elim (function_module.py:245-283)
MulLoop(rows_i, i, n, coeff, r, Bd) ==
    IF i >= n THEN Raised("NoTermException", Bd)
    ELSE MulStep(rows_i, MulSweep(rows_i, i + 1, n, r, TRUE), i, n, coeff, Bd)

\* the matrix of mul_fm_eq_elim (function_module.py:217-241); nt is the
\* product of IVar powers
MulMatrix(nt, Bd) ==
    LET n == Bd.num_terms
        eqs == SelectSeq(get_equalities(Bd),
                         LAMBDA tc : tc.c # F0 /\ ImpliesNonzero(Bd, tc.i))
        urow == [RowWith([ZeroRow(n + 1) EXCEPT ![n + 1] = FNeg(F1)],
                         [k \in 1..Len(nt.args) |->
                             <<PTerm(nt.args[k]).d, nt.args[k].c>>], 1)
                     EXCEPT ![1] = F1]
        eqrow(tc) == RowWith(ZeroRow(n + 1),
                             <<<<tc.i, FNeg(F1)>>, <<tc.j, F1>>, <<0, tc.c>>>>, 1)
        factors(i) == SelectSeq(Bd.term_defs[i + 1].args, LAMBDA mp : PTerm(mp).d # 0)
        defrow(i) == RowWith(ZeroRow(n + 1),
                             <<<<i, FNeg(F1)>>>>
                                 \o [k \in 1..Len(factors(i)) |->
                                        <<PTerm(factors(i)[k]).d, factors(i)[k].c>>]
                                 \o <<<<0, F1>>>>, 1)
        muls == SelectSeq([k \in 1..n |-> k - 1],
                          LAMBDA i : IsMul(Bd.term_defs[i + 1]) /\ ImpliesNonzero(Bd, i))
    IN  [k \in 1..Len(eqs) |-> eqrow(eqs[k])]
            \o [k \in 1..Len(muls) |-> defrow(muls[k])]
            \o <<urow>>


RECURSIVE find_problem_term(_, _)
RECURSIVE FindArgs(_, _, _, _)
RECURSIVE MulProduct(_, _, _, _)

\* p = find_problem_term(B, args[k].term) appended to out
FindArg(p, args, k, out) ==
    IF p.err # "" THEN [err |-> p.err, B |-> p.B, out |-> out]
    ELSE FindArgs(p.B, args, k + 1, Append(out, <<p.c, p.i>>))

\* [find_problem_term(B, p.term) for p in args]: the pairs <<c, i>> in out
FindArgs(Bd, args, k, out) ==
    IF k > Len(args) THEN [err |-> "", B |-> Bd, out |-> out]
    ELSE IF ~IsSTerm(args[k]) THEN [err |-> "AttributeError", B |-> Bd, out |-> out]
    ELSE FindArg(find_problem_term(Bd, TermOf(args[k])), args, k, out)

\* nargs = [(args[k].coeff * c, i) for the pairs (c, i) of out]
\* (function_module.py:131-132, 312-313)
ScaledArgs(args, out) ==
    [k \in 1..Len(out) |-> <<FMul(args[k].c, out[k][1]), out[k][2]>>]

\* one pass of the for-k loop body (function_module.py:321-334): TRUE
\* when position k reaches "continue", FALSE when it reaches "break"
ArgContinues(Bd, t, nargs, k) ==
    LET targ == <<t.args[k].c, TermOf(t.args[k]).d>>
        uarg == nargs[k]
        lo == IF targ[2] < uarg[2] THEN targ[2] ELSE uarg[2]
        hi == IF targ[2] < uarg[2] THEN uarg[2] ELSE targ[2]
        c == IF targ[2] < uarg[2]
             THEN FDiv(F1, EqualityCoeff(Bd, lo, hi))
             ELSE EqualityCoeff(Bd, lo, hi)
    IN  \/ targ = uarg
        \/ targ[2] = uarg[2] /\ targ[2] \in Range(Bd.zero_equalities)
        \/ targ[2] # uarg[2] /\ InEqualities(Bd, lo, hi)
               /\ FMul(uarg[1], c) = targ[1]

\* the for-k loop runs to its end without a break
ArgLoopCompletes(Bd, t, nargs) ==
    \A k \in 1..Len(t.args) : ArgContinues(Bd, t, nargs, k)

\* t.args[k].term.index (function_module.py:321) is read at a position the
\* loop reaches and the argument there has no index (only IVar and UVar
\* have one: terms.py:261-266)
ArgLoopRaises(Bd, t, nargs) ==
    \E k \in 1..Len(t.args) :
        /\ TermOf(t.args[k]).tag \notin {TagIVar, TagUVar}
        /\ \A m \in 1..(k - 1) : ArgContinues(Bd, t, nargs, m)

\* match as tested on function_module.py:336: set on line 319 and never
\* cleared by the for-k loop
MatchFlag(Bd, t, nargs) ==
    LET completes == ArgLoopCompletes(Bd, t, nargs)
    IN  TRUE

\* urow as appended to mat (function_module.py:135-137, 156)
GoalRow(nargs, Bd) == AddMatrix(nargs, Bd)[Len(AddMatrix(nargs, Bd))]

\* the elimination of add_fm_eq_elim on the scaled arguments
\* (function_module.py:135-186)
AddSolve(coeff, nargs, Bd) ==
    AddLoop(AddMatrix(nargs, Bd), 0, Bd.num_terms, coeff, Bd)

\* add_fm_eq_elim once its arguments were looked up
AddElim(coeff, term, found) ==
    IF found.err # "" THEN Raised(found.err, found.B)
    ELSE AddSolve(coeff, ScaledArgs(term.args, found.out), found.B)

\* add_fm_eq_elim (function_module.py:122-186)
add_fm_eq_elim(coeff, term, Bd) ==
    IF Len(term.args) = 1 THEN
        IF IsSTerm(term.args[1]) /\ IsIVar(TermOf(term.args[1]))
        THEN Found(FMul(coeff, term.args[1].c), TermOf(term.args[1]).d, Bd)
        ELSE Raised("AttributeError", Bd)
    ELSE AddElim(coeff, term, FindArgs(Bd, term.args, 1, <<>>))

\* nt *= (p[0] * IVar(p[1])) ** exponent (function_module.py:200, 203)
MulTimes(prod, Bd, args, k, nt) ==
    IF IsErr(prod) THEN [err |-> prod.err, B |-> Bd, nt |-> nt]
    ELSE MulProduct(Bd, args, k + 1, prod)

\* p = find_problem_term(B, args[k].term) enters the product
MulFactor(p, args, k, nt) ==
    IF p.err # "" THEN [err |-> p.err, B |-> p.B, nt |-> nt]
    ELSE MulTimes(PyMul(nt, PyPow(PyMul(Num(p.c), IVar(p.i)), PExp(args[k]))),
                  p.B, args, k, nt)

\* nt of mul_fm_eq_elim (function_module.py:199-203): the product of the
\* powers (p[0] * IVar(p[1])) ** exponent, scaled by coeff
MulProduct(Bd, args, k, nt) ==
    IF k > Len(args) THEN [err |-> "", B |-> Bd, nt |-> nt]
    ELSE MulFactor(find_problem_term(Bd, PTerm(args[k])), args, k, nt)

\* return (coeff, B.term_name(t.args[0].term).index)
\* (function_module.py:196-197); named is <<blackboard, index>>
MulNamed(coeff, named) == Found(coeff, named[2], named[1])

\* mul_fm_eq_elim on the canonized product nt (function_module.py:207-284)
MulSolve(coeff, nt, Bd) ==
    IF has_name(Bd, nt)[1] THEN Found(coeff, has_name(Bd, nt)[2], Bd)
    ELSE IF \A k \in 1..Len(nt.args) : ImpliesNonzero(Bd, PTerm(nt.args[k]).d)
    THEN MulLoop(MulMatrix(nt, Bd), 1, Bd.num_terms, coeff, Unbound, Bd)
    ELSE Raised("NoTermException", Bd)

\* nt = nt.canonize() (function_module.py:205)
MulCanonized(cnt, Bd) ==
    IF IsErr(cnt) THEN Raised(cnt.err, Bd)
    ELSE MulSolve(cnt.c, TermOf(cnt), Bd)

\* mul_fm_eq_elim once the product was built
MulElim(prod) ==
    IF prod.err # "" THEN Raised(prod.err, prod.B)
    ELSE MulCanonized(Canonize(prod.nt), prod.B)

\* mul_fm_eq_elim (function_module.py:189-284)
mul_fm_eq_elim(coeff, term, Bd) ==
    IF Len(term.args) = 1 /\ PExp(term.args[1]) = 1
    THEN MulNamed(coeff, term_name(Bd, term.args[1]))
    ELSE MulElim(MulProduct(Bd, term.args, 1, Num(coeff)))

\* a definition of B that has the name and the arity of the term
\* (function_module.py:316-318)
FuncMatches(Bd, term, nargs, i) ==
    /\ IsFunc(Bd.term_defs[i + 1])
    /\ Bd.term_defs[i + 1].d = term.d
    /\ Len(Bd.term_defs[i + 1].args) = Len(nargs)

\* the first definition whose for-k loop raises or whose match flag is
\* set ends the search (function_module.py:315-337)
FuncCandidate(Bd, term, nargs, i) ==
    /\ FuncMatches(Bd, term, nargs, i)
    /\ \/ ArgLoopRaises(Bd, Bd.term_defs[i + 1], nargs)
       \/ MatchFlag(Bd, Bd.term_defs[i + 1], nargs)

\* the search at the definition i that ends it
FuncAt(coeff, nargs, i, Bd) ==
    IF ArgLoopRaises(Bd, Bd.term_defs[i + 1], nargs)
    THEN Raised("AttributeError", Bd)
    ELSE Found(coeff, i, Bd)

\* the search for a function term among the definitions of B
\* (function_module.py:315-338)
FuncSearch(coeff, term, nargs, Bd) ==
    IF \E i \in 0..(Bd.num_terms - 1) : FuncCandidate(Bd, term, nargs, i)
    THEN FuncAt(coeff, nargs,
                CHOOSE n \in 0..(Bd.num_terms - 1) :
                    /\ FuncCandidate(Bd, term, nargs, n)
                    /\ \A m \in 0..(n - 1) : ~FuncCandidate(Bd, term, nargs, m),
                Bd)
    ELSE Raised("NoTermException", Bd)

\* the FuncTerm branch once the arguments were looked up
\* (function_module.py:311-313)
FuncElim(coeff, term, found) ==
    IF found.err # "" THEN Raised(found.err, found.B)
    ELSE FuncSearch(coeff, term, ScaledArgs(term.args, found.out), found.B)

\* find_problem_term on the canonized term coeff * term
\* (function_module.py:303-346)
FindTerm(coeff, term, Bd) ==
    IF IsIVar(term) THEN Found(coeff, term.d, Bd)
    ELSE IF has_name(Bd, term)[1] THEN Found(coeff, has_name(Bd, term)[2], Bd)
    ELSE IF IsFunc(term) THEN FuncElim(coeff, term, FindArgs(Bd, term.args, 1, <<>>))
    ELSE IF IsAdd(term) THEN add_fm_eq_elim(coeff, term, Bd)
    ELSE IF IsMul(term) THEN mul_fm_eq_elim(coeff, term, Bd)
    ELSE Raised("NoTermException", Bd)

\* sterm = term1.canonize() (function_module.py:301)
FindCanonized(sterm, Bd) ==
    IF IsErr(sterm) THEN Raised(sterm.err, Bd)
    ELSE FindTerm(sterm.c, TermOf(sterm), Bd)

\* find_problem_term (function_module.py:287-346)
find_problem_term(Bd, term1) == FindCanonized(Canonize(term1), Bd)


(***************************************************************************)
(* unify (function_module.py:349-426).  envs is None or a list of          *)
(* environments; the result is envs or a list, or an exception, together   *)
(* with the blackboard left behind.                                        *)
(***************************************************************************)
NoEnvs == [none |-> TRUE, list |-> <<>>]
EnvList(l) == [none |-> FALSE, list |-> l]
Unified(envs, Bd) == [err |-> "", envs |-> envs, B |-> Bd]
UnifyRaised(e, Bd) == [err |-> e, envs |-> NoEnvs, B |-> Bd]

\* occurs_as_arg (function_module.py:357-363)
occurs_as_arg(term, v) ==
    /\ IsFunc(term)
    /\ \E k \in 1..Len(term.args) : TermOf(term.args[k]) = UVar(v)

\* prob_f_terms (function_module.py:386-389), in ascending order
prob_f_terms(Bd, t) ==
    SelectSeq([k \in 1..Bd.num_terms |-> k - 1],
              LAMBDA i : /\ IsFunc(Bd.term_defs[i + 1])
                         /\ Bd.term_defs[i + 1].d = t.d
                         /\ Len(Bd.term_defs[i + 1].args) = Len(t.args))

\* c[v] = (coeff, j)
Bind(env, v, binding) == (v :> binding) @@ env

RECURSIVE unify(_, _, _, _, _)
RECURSIVE UnifyEnvs(_, _, _, _, _, _, _, _, _)
RECURSIVE UnifyCandidates(_, _, _, _, _, _, _, _)

\* nenvs.extend(maps) (function_module.py:423-425); maps is what the
\* recursive call returned
UnifyEnv(maps, open_terms, uvars, arg_uvars, cenvs, m, v, binding, nenvs) ==
    IF maps.err # "" THEN maps
    ELSE UnifyEnvs(maps.B, open_terms, uvars, arg_uvars, cenvs, m + 1, v,
                   binding, nenvs \o maps.envs.list)

\* the loop "for c in cenvs" (function_module.py:421-425) from position m.
\* When the recursive call returns its envs argument, that is the list
\* cenvs itself: nenvs then holds its dictionaries, seen as they are when
\* the loop has ended.
UnifyEnvs(Bd, open_terms, uvars, arg_uvars, cenvs, m, v, binding, nenvs) ==
    IF m > Len(cenvs) THEN Unified(EnvList(nenvs), Bd)
    ELSE LET bound == [k \in 1..Len(cenvs) |->
                          IF k <= m THEN Bind(cenvs[k], v, binding) ELSE cenvs[k]]
             final == [k \in 1..Len(cenvs) |-> Bind(cenvs[k], v, binding)]
         IN  IF Len(uvars) = 0 \/ Len(arg_uvars) = 0
             THEN UnifyEnvs(Bd, open_terms, uvars, arg_uvars, cenvs, m + 1, v,
                            binding, nenvs \o final)
             ELSE UnifyEnv(unify(Bd, open_terms, uvars, arg_uvars, EnvList(bound)),
                           open_terms, uvars, arg_uvars, cenvs, m, v, binding, nenvs)

UnifyOpenFront(maps, termlist, uvars, arg_uvars, envs, s, k, nenvs) ==
    IF maps.err # "" THEN maps
    ELSE UnifyCandidates(maps.B, termlist, uvars, arg_uvars, envs, s,
                         k + 1, maps.envs.list \o nenvs)

\* the end of one pass of the loop "for (coeff, j) in s": maps is what the
\* loop over cenvs collected (function_module.py:421-425)
UnifyOpen(maps, termlist, uvars, arg_uvars, envs, s, k, nenvs) ==
    IF maps.err # "" THEN maps
    ELSE UnifyCandidates(maps.B, termlist, uvars, arg_uvars, envs, s,
                         k + 1, nenvs \o maps.envs.list)

\* prob_terms = [find_problem_term(B, ct.term) for ct in closed_terms]
\* and its except branch (function_module.py:410-415); then the loop over
\* cenvs (function_module.py:420-425)
UnifyClosed(prob_terms, open_terms, termlist, uvars, arg_uvars, envs, s, k, nenvs) ==
    LET v == arg_uvars[1]
        cenvs == IF envs.none \/ envs.list = <<>> THEN <<<<>>>> ELSE envs.list
    IN  IF prob_terms.err = "NoTermException"
        THEN UnifyCandidates(prob_terms.B, termlist, uvars, arg_uvars, envs, s,
                             k + 1, nenvs)
        ELSE IF prob_terms.err # "" THEN UnifyRaised(prob_terms.err, prob_terms.B)
        ELSE UnifyOpen(UnifyEnvs(prob_terms.B,
                                 [n \in 1..Len(open_terms) |-> TermOf(open_terms[n].s)],
                                 SelectSeq(uvars, LAMBDA v0 : v0 # v), Tail(arg_uvars),
                                 cenvs, 1, v, s[k], <<>>),
                       termlist, uvars, arg_uvars, envs, s, k, nenvs)

\* closed_terms, open_terms of new_terms (function_module.py:402-408)
UnifySubstituted(Bd, new_terms, termlist, uvars, arg_uvars, envs, s, k, nenvs) ==
    LET closed_terms == SelectSeq(new_terms, LAMBDA p : p.flag)
        open_terms == SelectSeq(new_terms, LAMBDA p : ~p.flag)
    IN  IF IsErr(FirstFailed(new_terms))
        THEN UnifyRaised(FirstFailed(new_terms).err, Bd)
        ELSE UnifyClosed(FindArgs(Bd, [n \in 1..Len(closed_terms) |-> closed_terms[n].s],
                                  1, <<>>),
                         open_terms, termlist, uvars, arg_uvars, envs, s, k, nenvs)

\* the loop "for (coeff, j) in s" (function_module.py:399-425) from
\* position k
UnifyCandidates(Bd, termlist, uvars, arg_uvars, envs, s, k, nenvs) ==
    IF k > Len(s) THEN Unified(EnvList(nenvs), Bd)
    ELSE UnifySubstituted(Bd,
                          [n \in 1..Len(termlist) |->
                              substitute(termlist[n], arg_uvars[1], s[k][1], s[k][2])],
                          termlist, uvars, arg_uvars, envs, s, k, nenvs)

unify(Bd, termlist, uvars, arg_uvars, envs) ==
    IF Len(uvars) = 0 THEN Unified(envs, Bd)
    ELSE IF Len(arg_uvars) = 0 THEN Unified(envs, Bd)
    ELSE LET v == arg_uvars[1]
             tpos == FirstPos({k \in 1..Len(termlist) : occurs_as_arg(termlist[k], v)})
             t == termlist[tpos]
             ind == FirstPos({k \in 1..Len(t.args) : TermOf(t.args[k]) = UVar(v)})
             c == t.args[ind].c
             fs == prob_f_terms(Bd, t)
             s == [k \in 1..Len(fs) |->
                      <<FDiv(Bd.term_defs[fs[k] + 1].args[ind].c, c),
                        TermOf(Bd.term_defs[fs[k] + 1].args[ind]).d>>]
         IN  IF tpos = 0 THEN UnifyRaised("Exception", Bd)
             ELSE UnifyCandidates(Bd, termlist, uvars, arg_uvars, envs, s, 1, <<>>)


(***************************************************************************)
(* Comparisons (terms.py:658-741) and axioms.  An axiom is the record      *)
(* [vars, triggers, trig_arg_vars, literals] that instantiate reads.       *)
(***************************************************************************)
GT == 0
GE == 1
EQ == 2
LE == 3
LT == 4
NE == 5

TermComparison(term1, comp, term2) == [term1 |-> term1, comp |-> comp, term2 |-> term2]

\* comp_eval[comp](x, y) on two scaled terms (terms.py:679-680, 594-610)
comp_eval(comp, x, y) == TermComparison(x, comp, y)

\* comp_reverse (terms.py:666-670)
comp_reverse_all(i) == 4 - i
comp_reverse(i) == IF i = NE THEN NE ELSE 4 - i

\* comp_negate (terms.py:674-675)
comp_negate(i) == (i + 3) % 6

\* self.key = (term.key, coeff) of an STerm (terms.py:489): term is the
\* term the STerm was built from
STermKey(s) == <<s.args[1], s.c>>

\* TermComparison.canonize (terms.py:714-741) once both sides are
\* canonized: a comparison, or a raised exception.
\* "if t1.coeff < 0" and the return (terms.py:738-741)
CompareScaled(t1, comp, t2) ==
    TermComparison(TermOf(t1),
                   IF FLt(t1.c, F0) THEN comp_reverse(comp) ELSE comp,
                   STermDiv(t2, t1.c))
\* "if t1.coeff == 0" (terms.py:736-737)
CompareNonzero(t1, comp, t2) ==
    IF t1.c = F0 THEN CompareScaled(t2, comp_reverse(comp), zero)
    ELSE CompareScaled(t1, comp, t2)
\* "if t1.term.key > t2.term.key" (terms.py:734-735)
CompareOrdered(t1, comp, t2) ==
    IF Cmp(TermOf(t1), TermOf(t2)) > 0
    THEN CompareNonzero(t2, comp_reverse(comp), t1)
    ELSE CompareNonzero(t1, comp, t2)
\* both sides have the key of t, d is t1 - t2 (terms.py:725-732)
CompareDifference(d, t, comp) ==
    IF IsErr(d) THEN d
    ELSE IF d.c = F0
    THEN TermComparison(t, IF comp \in {LT, GT, NE} THEN comp ELSE EQ, STerm(F1, t))
    ELSE CompareOrdered(d, comp, zero)
CompareCanonized(t1, comp, t2) ==
    IF IsErr(t1) THEN t1
    ELSE IF IsErr(t2) THEN t2
    ELSE IF TermOf(t1) = TermOf(t2)
    THEN CompareDifference(PyAdd(t1, STermScale(t2, FNeg(F1))), TermOf(t1), comp)
    ELSE CompareOrdered(t1, comp, t2)
TermComparisonCanonize(self) ==
    CompareCanonized(Canonize(self.term1), self.comp, Canonize(self.term2))

\* The keys as the tuples Python compares with ==: a number, a name or a
\* tuple of keys.  Names are numbered as in Var and FuncTerm; the names
\* 'sum', 'prod' and 'abs' are told apart by the number before them.
KeyNumber(c) == [k |-> "number", n |-> c, t |-> <<>>]
KeyName(name) == [k |-> "name", n |-> FInt(name), t |-> <<>>]
KeyTuple(t) == [k |-> "tuple", n |-> F0, t |-> t]

\* self.key of a Term (terms.py:217, 232), an STerm (terms.py:489) and a
\* MulPair (terms.py:625)
RECURSIVE KeyOf(_)
KeyOf(v) ==
    IF v.kind = "term"
    THEN KeyTuple(<<KeyNumber(FInt(v.tag)),
                    IF v.tag \in {TagOne, TagIVar, TagUVar}
                    THEN KeyNumber(FInt(v.d)) ELSE KeyName(v.d)>>
                  \o [i \in 1..Len(v.args) |-> KeyOf(v.args[i])])
    ELSE KeyTuple(<<KeyOf(v.args[1]), KeyNumber(v.c)>>)

\* self.key = (self.term1.key, comp, self.term2.key) (terms.py:697)
TermComparisonKey(self) ==
    KeyTuple(<<KeyOf(self.term1), KeyNumber(FInt(self.comp)), KeyOf(self.term2)>>)

\* TermComparison.__eq__(self, other) for a TermComparison other
\* (terms.py:705-712)
TermComparisonEq(self, other) == KeyOf(self.term1) = TermComparisonKey(other)

Axiom(vs, triggers, trig_arg_vars, literals) ==
    [vars |-> vs, triggers |-> triggers, trig_arg_vars |-> trig_arg_vars,
     literals |-> literals]

(***************************************************************************)
(* instantiate (function_module.py:429-468)                                *)
(***************************************************************************)
Side(c, i, Bd) == [err |-> "", c |-> c, i |-> i, B |-> Bd]

\* B.term_name(sred.term).index; named is <<blackboard, index>>
InternNamed(c, named) == Side(c, named[2], named[1])

\* sred = red.canonize() (function_module.py:449 and 459)
InternCanonized(Bd, sred, scale) ==
    IF IsErr(sred) THEN Raised(sred.err, Bd)
    ELSE InternNamed(FMul(sred.c, scale), term_name(Bd, TermOf(sred)))

\* the except branch: intern the canonized term (function_module.py:448-451
\* and 458-461)
InternSide(Bd, red, scale) == InternCanonized(Bd, Canonize(red), scale)

\* p = find_problem_term(B, red.term) and the except branch that catches
\* NoTermException only
MatchFound(p, red, scale, onmiss) ==
    IF p.err = "" THEN Side(FMul(p.c, FMul(scale, red.c)), p.i, p.B)
    ELSE IF p.err = "NoTermException" THEN InternSide(p.B, red, onmiss)
    ELSE Raised(p.err, p.B)

\* one side of a literal: match red.term, else intern it
MatchSide(Bd, red, scale, onmiss) ==
    IF IsErr(red) THEN Raised(red.err, Bd)
    ELSE IF ~IsSTerm(red) THEN Raised("AttributeError", Bd)
    ELSE MatchFound(find_problem_term(Bd, TermOf(red)), red, scale, onmiss)

\* red = reduce_term(l.term1, env)[0].canonize() (function_module.py:442)
LeftReduced(Bd, r) ==
    IF IsErr(r) THEN Raised(r.err, Bd)
    ELSE IF ~IsSTerm(r) THEN Raised("AttributeError", Bd)
    ELSE MatchSide(Bd, Canonize(r), F1, F1)

\* function_module.py:442-451
LeftSide(Bd, l, env) == LeftReduced(Bd, reduce_term(l.term1, env).s)

\* function_module.py:453-461
RightSide(Bd, l, env) ==
    MatchSide(Bd, reduce_term(TermOf(l.term2), env).s, l.term2.c, l.term2.c)

Instantiated(clauses, Bd) == [err |-> "", clauses |-> clauses, B |-> Bd]
InstantiateRaised(e, Bd) == [err |-> e, clauses |-> <<>>, B |-> Bd]

RECURSIVE Literals(_, _, _, _, _)

\* literals.append(comp_eval[l.comp](lcoeff * IVar(lterm), rcoeff *
\* IVar(rterm))) (function_module.py:463-465)
LiteralRight(left, right, lits, env, k, out) ==
    IF right.err # "" THEN InstantiateRaised(right.err, right.B)
    ELSE Literals(right.B, lits, env, k + 1,
                  Append(out, comp_eval(lits[k].comp,
                                        STerm(left.c, IVar(left.i)),
                                        STerm(right.c, IVar(right.i)))))

\* the right side is matched on the blackboard the left side left
LiteralLeft(left, lits, env, k, out) ==
    IF left.err # "" THEN InstantiateRaised(left.err, left.B)
    ELSE LiteralRight(left, RightSide(left.B, lits[k], env), lits, env, k, out)

\* the loop "for l in axiom.literals" (function_module.py:440-465)
Literals(Bd, lits, env, k, out) ==
    IF k > Len(lits) THEN Instantiated(out, Bd)
    ELSE LiteralLeft(LeftSide(Bd, lits[k], env), lits, env, k, out)

RECURSIVE Clauses(_, _, _, _, _)

\* clauses.append(literals) (function_module.py:466)
ClauseOf(lits, axiom, envs, k, clauses) ==
    IF lits.err # "" THEN lits
    ELSE Clauses(lits.B, axiom, envs, k + 1, Append(clauses, lits.clauses))

\* the loop "for env in envs" (function_module.py:438-466)
Clauses(Bd, axiom, envs, k, clauses) ==
    IF k > Len(envs) THEN Instantiated(clauses, Bd)
    ELSE ClauseOf(Literals(Bd, axiom.literals, envs[k], 1, <<>>),
                  axiom, envs, k, clauses)

\* the environments in what unify returned: none when it raised or
\* returned None
EnvsOf(u) == IF u.err = "" /\ ~u.envs.none THEN u.envs.list ELSE <<>>

\* what instantiate returns or raises, with the environments it worked on
Traced(r, envs) == [err |-> r.err, clauses |-> r.clauses, B |-> r.B, envs |-> envs]

\* instantiate on the environments unify returned
InstantiateEnvs(axiom, envs) ==
    Traced(IF envs.err # "" THEN InstantiateRaised(envs.err, envs.B)
           ELSE IF envs.envs.none THEN InstantiateRaised("TypeError", envs.B)
           ELSE Clauses(envs.B, axiom, envs.envs.list, 1, <<>>),
           EnvsOf(envs))

\* instantiate (function_module.py:429-468); envs = unify(...) on line 431
instantiate(axiom, Bd) ==
    InstantiateEnvs(axiom,
                    unify(Bd, axiom.triggers, axiom.vars, axiom.trig_arg_vars, NoEnvs))


(***************************************************************************)
(* The term algebra exercised on bounded sets of terms: canonize, and the  *)
(* operators +, * and ** that build sums, products and powers.             *)
(***************************************************************************)
NumVars == 2
MaxCoeff == 2
MaxExp == 2

Vars == {Var(n) : n \in 1..NumVars}
Atoms == {One} \cup Vars
Prods == {MulTerm(<<MulPair(a, 1), MulPair(b, 1)>>) : a, b \in Vars}
             \ {MulTerm(<<MulPair(a, 1), MulPair(a, 1)>>) : a \in Vars}
BaseTerms ==
    Atoms \cup Prods
        \cup {AbsTerm(Var(1)), FuncTerm(1, <<STerm(F1, Var(1))>>)}
Coeffs == {FInt(k) : k \in (-MaxCoeff..MaxCoeff) \ {0}}
Exps == (-MaxExp..MaxExp) \ {0}

Sums2 == {AddTerm(<<STerm(F1, a), STerm(c, b)>>) :
              a \in BaseTerms, b \in BaseTerms, c \in Coeffs}
Sums3 == {AddTerm(<<STerm(F1, t[1]), STerm(F1, t[2]), STerm(c, t[3])>>) :
              t \in (Atoms \cup Prods) \X (Atoms \cup Prods) \X (Atoms \cup Prods),
              c \in {F1, FNeg(F1)}}
Prods2 == {MulTerm(<<MulPair(a, 1), MulPair(b, e)>>) :
              a \in BaseTerms, b \in BaseTerms, e \in Exps}
Powers == {MulTerm(<<MulPair(a, e)>>) : a \in BaseTerms, e \in Exps}
Nested ==
    {AbsTerm(STerm(c, a)) : a \in Vars, c \in Coeffs}
        \cup {FuncTerm(1, <<STerm(c, a)>>) : a \in Prods \cup Vars, c \in Coeffs}
        \cup {MulTerm(<<MulPair(AddTerm(<<STerm(c, a), STerm(c, b)>>), e)>>) :
                  a \in Vars, b \in Vars \cup {One}, c \in Coeffs, e \in Exps}
PlainSums == {AddTerm(<<STerm(F1, a), STerm(F1, b)>>) : a, b \in Atoms}
                 \ {AddTerm(<<STerm(F1, a), STerm(F1, a)>>) : a \in Atoms}
CanonTerms == BaseTerms \cup Sums2 \cup Sums3 \cup Prods2 \cup Powers \cup Nested

NoB == [num_terms |-> 0]
Idle ==
    /\ B = NoB /\ axioms = <<>> /\ pc = "idle" /\ cur = 0
    /\ pending = <<>> /\ exc = ""
IdleUnchanged == UNCHANGED <<B, axioms, pc, cur, pending, exc>>

InitCanon ==
    /\ op = "init"
    /\ arg \in [a : CanonTerms, b : BaseTerms \cup PlainSums]
    /\ res = <<>>
    /\ Idle

\* t.canonize()
CanonizeTerm ==
    /\ op = "init"
    /\ op' = "canonize"
    /\ res' = <<Canonize(arg.a)>>
    /\ UNCHANGED arg /\ IdleUnchanged

\* t.canonize().term.canonize()
CanonizeAgain ==
    /\ op = "canonize"
    /\ IsSTerm(res[1])
    /\ op' = "canonize2"
    /\ res' = <<res[1], Canonize(TermOf(res[1]))>>
    /\ UNCHANGED arg /\ IdleUnchanged

\* (a + b).canonize() and (b + a).canonize()
SumBothWays ==
    /\ op = "init"
    /\ op' = "add"
    /\ res' = <<Canonize(PyAdd(arg.a, arg.b)), Canonize(PyAdd(arg.b, arg.a))>>
    /\ UNCHANGED arg /\ IdleUnchanged

\* (a * b).canonize() and (b * a).canonize()
ProdBothWays ==
    /\ op = "init"
    /\ op' = "mul"
    /\ res' = <<Canonize(PyMul(arg.a, arg.b)), Canonize(PyMul(arg.b, arg.a))>>
    /\ UNCHANGED arg /\ IdleUnchanged

\* (a * a).canonize() and (a ** 2).canonize()
SquareBothWays ==
    /\ op = "init"
    /\ op' = "square"
    /\ res' = <<Canonize(PyMul(arg.a, arg.a)), Canonize(PyPow(arg.a, 2))>>
    /\ UNCHANGED arg /\ IdleUnchanged

NextCanon ==
    \/ CanonizeTerm
    \/ CanonizeAgain
    \/ SumBothWays
    \/ ProdBothWays
    \/ SquareBothWays

SpecCanon == InitCanon /\ [][NextCanon]_vars

\* C3: whenever canonize(t) returns an STerm (c, s), canonize(s) returns an
\* STerm with coefficient 1 whose term has the key of s.
C3_CanonizeIdempotent ==
    op = "canonize2" =>
        /\ IsSTerm(res[2])
        /\ res[2].c = F1
        /\ TermOf(res[2]) = TermOf(res[1])

\* C4: whenever the canonizations succeed, a + b and b + a, and a * b and
\* b * a (a, b of distinct keys), and a * a and a ** 2, canonize to the same
\* key.
C4_KeyRespectsAlgebra ==
    /\ (op \in {"add", "mul"} /\ arg.a # arg.b /\ IsSTerm(res[1]) /\ IsSTerm(res[2]))
           => res[1] = res[2]
    /\ (op = "square" /\ IsSTerm(res[1]) /\ IsSTerm(res[2]))
           => res[1] = res[2]

\* C18: canonize returns an STerm for every AddTerm; for x + (-1)*x it is
\* STerm(0, One), and for x + c*x with c # -1 it is the single summand
\* (1 + c)*x
C18_AddCanonizeTotal ==
    (op = "canonize" /\ IsAdd(arg.a)) =>
        /\ IsSTerm(res[1])
        /\ \A t \in Vars, c \in Coeffs :
               arg.a = AddTerm(<<STerm(F1, t), STerm(c, t)>>) =>
                   res[1] = IF c = FNeg(F1) THEN zero ELSE STerm(FAdd(F1, c), t)

\* C19: canonize returns an STerm for every MulTerm; for x * x**-1 it is
\* STerm(1, One); and no MulTerm that canonize returns has One as the
\* term of a factor
C19_MulCanonizeTotal ==
    /\ (op = "canonize" /\ IsMul(arg.a)) =>
           /\ IsSTerm(res[1])
           /\ \A t \in Vars :
                  arg.a = MulTerm(<<MulPair(t, 1), MulPair(t, -1)>>) =>
                      res[1] = STerm(F1, One)
    /\ (op = "canonize" /\ IsSTerm(res[1]) /\ IsMul(TermOf(res[1]))) =>
           \A k \in 1..Len(TermOf(res[1]).args) :
               PTerm(TermOf(res[1]).args[k]) # One

(***************************************************************************)
(* reduce_term and substitute exercised on canonized terms over UVars and  *)
(* IVars, with environments binding some of the UVars.                     *)
(***************************************************************************)
NumUVars == 2
NumIVars == 2

UVars == {UVar(i) : i \in 1..NumUVars}
IVars == {IVar(j) : j \in 1..NumIVars}
Leaves == {One} \cup UVars \cup IVars
LeafSums == {AddTerm(<<STerm(F1, p[1]), STerm(c, p[2])>>) :
                 p \in {q \in Leaves \X (UVars \cup IVars) : q[1] # q[2]},
                 c \in Coeffs}
UnitSums == {AddTerm(<<STerm(F1, p[1]), STerm(c, p[2])>>) :
                 p \in {q \in Leaves \X (UVars \cup IVars) : q[1] # q[2]},
                 c \in {F1, FNeg(F1)}}
LeafSums3 == {AddTerm(<<STerm(F1, One), STerm(F1, p[1]), STerm(c, p[2])>>) :
                 p \in {q \in UVars \X (UVars \cup IVars) : q[1] # q[2]},
                 c \in Coeffs}
LeafProds == {MulTerm(<<MulPair(p[1], 1), MulPair(p[2], e)>>) :
                 p \in {q \in (UVars \cup IVars) \X (UVars \cup IVars) : q[1] # q[2]},
                 e \in Exps}
             \cup {MulTerm(<<MulPair(a, e)>>) : a \in UVars, e \in Exps \ {1}}
RawTerms ==
    Leaves \cup LeafSums \cup LeafSums3 \cup LeafProds
        \cup {AbsTerm(a) : a \in UVars \cup IVars}
        \cup {FuncTerm(1, <<STerm(c, a)>>) : a \in Leaves, c \in {F1, FInt(2)}}
        \cup {FuncTerm(1, <<STerm(F1, a)>>) : a \in LeafSums}
        \cup {FuncTerm(2, <<STerm(F1, a), STerm(F1, b)>>) :
                  a \in UVars \cup IVars, b \in UVars}
        \cup {MulTerm(<<MulPair(a, 1), MulPair(b, e)>>) :
                  a \in UVars, b \in UnitSums, e \in {1, -1}}
\* the terms of an axiom are canonized when the axiom is built
ReduceTerms == {Canonize(t) : t \in {r \in RawTerms : IsSTerm(Canonize(r))}}
EnvCoeffs == {F1, FNeg(F1), FInt(MaxCoeff)}
Envs == UNION {[D -> EnvCoeffs \X (1..NumIVars)] : D \in SUBSET (1..NumUVars)}

InitReduce ==
    /\ op = "init"
    /\ arg \in [t : ReduceTerms, env : Envs]
    /\ res = <<>>
    /\ Idle

\* reduce_term(t, env)
ReduceTerm ==
    /\ op = "init"
    /\ op' = "reduce"
    /\ res' = [r |-> reduce_term(arg.t, arg.env), env |-> arg.env]
    /\ UNCHANGED arg /\ IdleUnchanged

\* substitute(t, u, c, i) for a binding u -> (c, i) of env
Substitute ==
    /\ op = "init"
    /\ \E u \in DOMAIN arg.env :
           res' = [r |-> substitute(arg.t, u, arg.env[u][1], arg.env[u][2]),
                   env |-> (u :> arg.env[u])]
    /\ op' = "substitute"
    /\ UNCHANGED arg /\ IdleUnchanged

NextReduce == ReduceTerm \/ Substitute

SpecReduce == InitReduce /\ [][NextReduce]_vars

\* t with every UVar that env binds replaced by coeff * IVar(index)
RECURSIVE Replace(_, _)
Replace(t, env) ==
    IF t.kind \in {"sterm", "pair"}
    THEN [t EXCEPT !.args = <<Replace(t.args[1], env)>>]
    ELSE IF t.tag = TagUVar
    THEN (IF t.d \in DOMAIN env THEN STerm(env[t.d][1], IVar(env[t.d][2])) ELSE t)
    ELSE [t EXCEPT !.args = [k \in 1..Len(t.args) |-> Replace(t.args[k], env)]]

\* the indices of the UVars that occur in a term
RECURSIVE UVarsIn(_)
UVarsIn(t) ==
    IF IsSTerm(t) THEN UVarsIn(TermOf(t))
    ELSE IF t.kind = "pair" THEN UVarsIn(PTerm(t))
    ELSE IF t.tag = TagUVar THEN {t.d}
    ELSE UNION {UVarsIn(t.args[k]) : k \in 1..Len(t.args)}

Reduced == op \in {"reduce", "substitute"}

\* C5: reduce_term / substitute never fails, and its result canonizes to
\* the canonical form of t with every bound UVar replaced by coeff * IVar.
C5_SubstitutionSound ==
    Reduced =>
        /\ ~IsErr(res.r.s)
        /\ Canonize(res.r.s) = Canonize(Replace(arg.t, res.env))

\* C6 (as stated): the flag is true exactly when no UVar remains in the
\* returned term.
C6_FlagIffNoUVarRemains ==
    (Reduced /\ ~IsErr(res.r.s)) =>
        (res.r.flag <=> UVarsIn(res.r.s) = {})

\* C6 (amended): the flag is true exactly when every UVar occurring in t is
\* bound in env.
C6_FlagIffAllBound ==
    (Reduced /\ ~IsErr(res.r.s)) =>
        (res.r.flag <=> UVarsIn(arg.t) \subseteq DOMAIN res.env)

\* a term with UVars reduced under an environment binding all of them
C6_Witness ==
    /\ op = "reduce" /\ ~IsErr(res.r.s)
    /\ res.r.flag
    /\ UVarsIn(arg.t) # {}

(***************************************************************************)
(* The matcher on bounded blackboards.                                     *)
(*                                                                         *)
(* A blackboard of the family has t0 = 1, t1 = x, t2 = y and up to two     *)
(* further problem terms defined over those, at most one stored            *)
(* fact, and the sign knowledge of either nothing or every term that can   *)
(* be nonzero.  Only blackboards whose facts have a model are kept.        *)
(***************************************************************************)
MaxValue == 2
NumInterps == 3

f == 1
ceil == 2

\* the real values tried for an atom
Values == {FInt(n) : n \in (-1)..MaxValue}

\* an undefined value (division by zero)
Undef == <<0, 0>>
XAdd(a, b) == IF a = Undef \/ b = Undef THEN Undef ELSE FAdd(a, b)
XMul(a, b) == IF a = Undef \/ b = Undef THEN Undef ELSE FMul(a, b)
XPow(a, e) ==
    IF a = Undef \/ (a = F0 /\ e < 0) THEN Undef ELSE FPow(a, e)

\* the unary real functions tried for a function symbol
Apply(k, v) ==
    IF v = Undef THEN Undef
    ELSE IF k = 1 THEN v
    ELSE IF k = 2 THEN FMul(v, v)
    ELSE FAdd(v, F1)

Interpretations == [atoms : [1..NumVars -> Values], fi : 1..NumInterps]

RECURSIVE Eval(_, _, _)
RECURSIVE EvalSum(_, _, _, _)
RECURSIVE EvalProd(_, _, _, _)
EvalSum(args, k, Bd, M) ==
    IF k > Len(args) THEN F0
    ELSE XAdd(Eval(args[k], Bd, M), EvalSum(args, k + 1, Bd, M))
EvalProd(args, k, Bd, M) ==
    IF k > Len(args) THEN F1
    ELSE XMul(Eval(args[k], Bd, M), EvalProd(args, k + 1, Bd, M))

\* the real value of a term, a scaled term or a power under M, an IVar
\* standing for its definition on Bd
Eval(v, Bd, M) ==
    IF v.kind = "sterm" THEN XMul(v.c, Eval(v.args[1], Bd, M))
    ELSE IF v.kind = "pair" THEN XPow(Eval(PTerm(v), Bd, M), PExp(v))
    ELSE IF v.tag = TagOne THEN F1
    ELSE IF v.tag = TagVar THEN M.atoms[v.d]
    ELSE IF v.tag = TagIVar THEN Eval(Bd.term_defs[v.d + 1], Bd, M)
    ELSE IF v.tag = TagAdd THEN EvalSum(v.args, 1, Bd, M)
    ELSE IF v.tag = TagMul THEN EvalProd(v.args, 1, Bd, M)
    ELSE IF v.tag = TagFunc THEN Apply(M.fi, Eval(v.args[1], Bd, M))
    ELSE Undef

\* M gives every problem term a value and satisfies the facts of Bd
Satisfies(M, Bd) ==
    /\ \A i \in 0..(Bd.num_terms - 1) : Eval(IVar(i), Bd, M) # Undef
    /\ \A k \in 1..Len(Bd.equalities) :
           Eval(IVar(Bd.equalities[k][1]), Bd, M)
               = FMul(Bd.equalities[k][3], Eval(IVar(Bd.equalities[k][2]), Bd, M))
    /\ \A k \in 1..Len(Bd.zero_equalities) :
           Eval(IVar(Bd.zero_equalities[k]), Bd, M) = F0
    /\ \A i \in Bd.nonzero : Eval(IVar(i), Bd, M) # F0

Models(Bd) == {M \in Interpretations : Satisfies(M, Bd)}

BaseDefs == <<One, Var(1), Var(2)>>

\* definitions of a further problem term over t1, t2
ExtraDefs ==
    {FuncTerm(f, <<STerm(F1, IVar(i))>>) : i \in 1..2}
        \cup {AddTerm(<<STerm(F1, IVar(1)), STerm(c, IVar(2))>>) : c \in {F1, FInt(MaxCoeff)}}
        \cup {MulTerm(<<MulPair(IVar(1), 1), MulPair(IVar(2), e)>>) : e \in {1, -1}}

TermDefs ==
    {BaseDefs} \cup {Append(BaseDefs, d) : d \in ExtraDefs}
        \cup {BaseDefs \o <<FuncTerm(f, <<STerm(F1, IVar(1))>>), d>> :
                 d \in ExtraDefs \ {FuncTerm(f, <<STerm(F1, IVar(1))>>)}}

\* stored facts t_i = c * t_j (i < j)
StoredEqualities(n) ==
    {<<>>} \cup {<<<<i, j, c>>>> : i \in 1..(n - 1), j \in 2..(n - 1),
                                   c \in {F1, FInt(MaxCoeff)}}

SignKnowledge(n, zeros) == {{0}, (0..(n - 1)) \ Range(zeros)}

RawBoards ==
    UNION {UNION {UNION {{Blackboard(defs, eqs, zeros, nz) :
                            nz \in SignKnowledge(Len(defs), zeros)} :
                         zeros \in {<<>>, <<1>>}} :
                  eqs \in {e \in StoredEqualities(Len(defs)) :
                              e = <<>> \/ e[1][1] < e[1][2]}} :
           defs \in TermDefs}

Boards == {b \in RawBoards : Models(b) # {}}

\* terms over the problem terms of a blackboard with n of them
MatchTerms(n) ==
    {IVar(i) : i \in 0..(n - 1)}
        \cup {FuncTerm(f, <<STerm(c, IVar(i))>>) :
                 i \in 1..(n - 1), c \in {F1, FInt(MaxCoeff)}}
        \cup {AddTerm(<<STerm(F1, IVar(p[1])), STerm(c, IVar(p[2]))>>) :
                 p \in {q \in (1..(n - 1)) \X (1..(n - 1)) : q[1] < q[2]},
                 c \in {F1, FInt(MaxCoeff)}}
        \cup {AddTerm(<<STerm(F1, IVar(i)), STerm(c, IVar(i))>>) :
                 i \in 1..(n - 1), c \in {F1, FNeg(F1)}}
        \cup {AddTerm(<<STerm(F1, IVar(2)), STerm(F1, IVar(1)),
                         STerm(FNeg(F1), IVar(1)), STerm(F1, IVar(2))>>)}
        \cup {AddTerm(<<STerm(F1, IVar(i)),
                         STerm(c, FuncTerm(f, <<STerm(F1, IVar(j))>>))>>) :
                 i \in 3..(n - 1), j \in 1..2, c \in {F1, FNeg(F1)}}
        \cup {MulTerm(<<MulPair(IVar(p[1]), 1), MulPair(IVar(p[2]), e)>>) :
                 p \in {q \in (1..(n - 1)) \X (1..(n - 1)) : q[1] < q[2]},
                 e \in {1, -1}}
        \cup {MulTerm(<<MulPair(IVar(i), e)>>) : i \in 1..(n - 1), e \in {1, MaxExp}}

InitMatch ==
    /\ op = "init"
    /\ B \in Boards
    /\ arg \in {[t |-> t, B |-> B] : t \in MatchTerms(B.num_terms)}
    /\ res = <<>>
    /\ axioms = <<>> /\ pc = "idle" /\ cur = 0 /\ pending = <<>> /\ exc = ""

\* what find_problem_term returned or raised, and the blackboard it left
FindResult(r) ==
    /\ res' = [err |-> r.err, c |-> r.c, i |-> r.i]
    /\ B' = r.B

\* find_problem_term(B, t)
FindProblemTerm ==
    /\ op = "init"
    /\ FindResult(find_problem_term(B, arg.t))
    /\ op' = "find"
    /\ UNCHANGED <<arg, axioms, pc, cur, pending, exc>>

\* find_problem_term(B, t) reaches add_fm_eq_elim with a sum of two or
\* more summands and every summand is matched
ReachesGoalRow(sterm, Bd) ==
    /\ ~IsErr(sterm)
    /\ IsAdd(TermOf(sterm))
    /\ ~has_name(Bd, TermOf(sterm))[1]
    /\ Len(TermOf(sterm).args) > 1
    /\ FindArgs(Bd, TermOf(sterm).args, 1, <<>>).err = ""

\* nargs and urow of add_fm_eq_elim
GoalRowFound(term, found) ==
    /\ res' = [nargs |-> ScaledArgs(term.args, found.out),
               urow |-> GoalRow(ScaledArgs(term.args, found.out), found.B)]
    /\ B' = found.B
GoalRowOf(sterm, Bd) ==
    GoalRowFound(TermOf(sterm), FindArgs(Bd, TermOf(sterm).args, 1, <<>>))

\* find_problem_term(B, t) up to the point where add_fm_eq_elim has built
\* the goal row (function_module.py:130-137)
BuildGoalRow ==
    /\ op = "init"
    /\ ReachesGoalRow(Canonize(arg.t), B)
    /\ GoalRowOf(Canonize(arg.t), B)
    /\ op' = "urow"
    /\ UNCHANGED <<arg, axioms, pc, cur, pending, exc>>

NextMatch == FindProblemTerm \/ BuildGoalRow

SpecMatch == InitMatch /\ [][NextMatch]_vars

\* C1: whenever find_problem_term(B, t) returns (c, i), t = c * t_i holds
\* under every assignment of values that satisfies the equalities, the
\* zero-equalities, the sign facts and the term definitions of B
C1_MatcherSound ==
    (op = "find" /\ res.err = "") =>
        \A M \in Models(arg.B) :
            Eval(arg.t, arg.B, M) = FMul(res.c, Eval(IVar(res.i), B, M))

\* C7: find_problem_term either returns (c, i) with 0 <= i < num_terms or
\* raises NoTerm, and nothing else
C7_NoTermOnlyFailure ==
    op = "find" =>
        /\ res.err \in {"", "NoTermException"}
        /\ res.err = "" => (0 <= res.i /\ res.i < B.num_terms)

\* the sum of the coefficients of the pairs (c, i) of nargs, from
\* position k on, whose index is j
RECURSIVE CoefficientSum(_, _, _)
CoefficientSum(nargs, j, k) ==
    IF k > Len(nargs) THEN F0
    ELSE FAdd(IF nargs[k][2] = j THEN nargs[k][1] ELSE F0,
              CoefficientSum(nargs, j, k + 1))

\* C24: the goal row of the additive elimination represents the whole
\* sum: its entry in the column of a problem term t_j is the sum of the
\* coefficients of all summands matched to t_j, and its last entry is -1
C24_GoalRowIsSum ==
    op = "urow" =>
        /\ \A j \in 0..(B.num_terms - 1) :
               res.urow[j + 1] = CoefficientSum(res.nargs, j, 1)
        /\ res.urow[B.num_terms + 1] = FNeg(F1)

\* C25: find_problem_term leaves the blackboard as it found it, whether it
\* returns a pair or raises NoTermException: the number of problem terms,
\* their definitions (and so their names) and the stored equalities are
\* the same after the call as before it
C25_MatcherReadOnly ==
    (op = "find" /\ res.err \in {"", "NoTermException"}) =>
        /\ B.num_terms = arg.B.num_terms
        /\ B.term_defs = arg.B.term_defs
        /\ B.equalities = arg.B.equalities
        /\ B.zero_equalities = arg.B.zero_equalities

\* the argument a * t_p of a problem term and the argument b * t_q of
\* the term looked up reconcile: they are the same pair, or p = q is a
\* known zero, or a stored equality between t_p and t_q makes them equal
Reconciles(Bd, a, p, b, q) ==
    \/ a = b /\ p = q
    \/ p = q /\ p \in Range(Bd.zero_equalities)
    \/ p < q /\ InEqualities(Bd, p, q) /\ FMul(a, EqualityCoeff(Bd, p, q)) = b
    \/ q < p /\ InEqualities(Bd, q, p) /\ a = FMul(b, EqualityCoeff(Bd, q, p))

\* the problem term t_i applies the function of term to as many
\* arguments, and every argument position reconciles
Qualifies(Bd, term, i) ==
    /\ IsFunc(Bd.term_defs[i + 1])
    /\ Bd.term_defs[i + 1].d = term.d
    /\ Len(Bd.term_defs[i + 1].args) = Len(term.args)
    /\ \A k \in 1..Len(term.args) :
           Reconciles(Bd, Bd.term_defs[i + 1].args[k].c,
                      TermOf(Bd.term_defs[i + 1].args[k]).d,
                      term.args[k].c, TermOf(term.args[k]).d)

\* C22: for a function term f(...) over problem terms that is not a
\* problem term itself, find_problem_term returns a problem term only if
\* it applies f to as many arguments and every argument position
\* reconciles; it raises NoTermException when no problem term does
C22_FailingArgumentDisqualifies ==
    (op = "find" /\ IsFunc(arg.t) /\ ~has_name(arg.B, arg.t)[1]) =>
        /\ res.err = "" => Qualifies(arg.B, arg.t, res.i)
        /\ (\A i \in 0..(arg.B.num_terms - 1) : ~Qualifies(arg.B, arg.t, i))
               => res.err = "NoTermException"

(***************************************************************************)
(* The unifier on bounded blackboards and trigger lists, called as         *)
(* instantiate calls it: without envs.                                     *)
(***************************************************************************)
\* the elements of a set of UVar indices, in ascending order
Ascending(S) == SelectSeq([k \in 1..NumUVars |-> k], LAMBDA u : u \in S)

\* trigger terms f(...) over u1, u2 and t1
Patterns ==
    {FuncTerm(f, <<STerm(c, UVar(u))>>) : u \in 1..NumUVars, c \in {F1, FInt(MaxCoeff)}}
        \cup {FuncTerm(f, <<STerm(F1, AddTerm(<<STerm(F1, UVar(1)), STerm(F1, UVar(2))>>))>>)}
        \cup {FuncTerm(f, <<STerm(F1, AddTerm(<<STerm(F1, IVar(1)), STerm(F1, UVar(u))>>))>>) :
                 u \in 1..NumUVars}
        \cup {FuncTerm(f, <<STerm(F1, IVar(1))>>)}

\* f(u1), ceil(u2) and a further trigger over u1
Patterns3 ==
    {<<FuncTerm(f, <<STerm(F1, UVar(1))>>), FuncTerm(ceil, <<STerm(F1, UVar(2))>>), p>> :
        p \in {FuncTerm(f, <<STerm(F1, MulTerm(<<MulPair(UVar(1), MaxExp)>>))>>),
                FuncTerm(f, <<STerm(FInt(MaxCoeff), UVar(1))>>)}}

TriggerLists ==
    {<<p>> : p \in Patterns}
        \cup {<<q[1], q[2]>> : q \in {r \in Patterns \X Patterns : r[1] # r[2]}}
        \cup Patterns3

\* the variables of a trigger list, and those that occur alone as the
\* argument of a trigger
TriggerVars(triggers) ==
    Ascending(UNION {UVarsIn(triggers[k]) : k \in 1..Len(triggers)})
TriggerArgVars(triggers) ==
    Ascending({u \in 1..NumUVars :
                  \E k \in 1..Len(triggers) : occurs_as_arg(triggers[k], u)})

\* the orders in which the elements of a list can be given
Permuted(l) ==
    {[k \in 1..Len(l) |-> l[q[k]]] : q \in Permutations(1..Len(l))}

\* blackboards with an application of f among the problem terms
UnifyBoards ==
    {b \in Boards : /\ \E k \in 1..b.num_terms : IsFunc(b.term_defs[k])
                    /\ b.zero_equalities = <<>>}

\* blackboards with applications of f to scaled problem terms
ScaledBoards ==
    {Blackboard(BaseDefs \o <<FuncTerm(f, <<STerm(FInt(MaxCoeff), IVar(i))>>)>>,
                <<>>, <<>>, {0}) : i \in 1..2}
        \cup {Blackboard(BaseDefs \o <<FuncTerm(f, <<STerm(F1, IVar(1))>>),
                                       FuncTerm(f, <<STerm(FInt(MaxCoeff), IVar(i))>>)>>,
                         <<>>, <<>>, {0}) : i \in 1..3}

InitUnify ==
    /\ op = "init"
    /\ B \in UnifyBoards \cup ScaledBoards
    /\ arg \in UNION {{[termlist |-> l, uvars |-> TriggerVars(l),
                         arg_uvars |-> a, B |-> B] : a \in Permuted(TriggerArgVars(l))} :
                       l \in TriggerLists}
    /\ res = <<>>
    /\ axioms = <<>> /\ pc = "idle" /\ cur = 0 /\ pending = <<>> /\ exc = ""

\* what unify returned or raised, and the blackboard it left
UnifyResult(r) ==
    /\ res' = [err |-> r.err, envs |-> r.envs]
    /\ B' = r.B

\* unify(B, termlist, uvars, arg_uvars)
Unify ==
    /\ op = "init"
    /\ UnifyResult(unify(B, arg.termlist, arg.uvars, arg.arg_uvars, NoEnvs))
    /\ op' = "unify"
    /\ UNCHANGED <<arg, axioms, pc, cur, pending, exc>>

\* lists of one and of two environments given to unify: the empty
\* environment and one that binds a variable no trigger list uses
GivenEnv == (NumUVars + 1) :> <<F1, 1>>
GivenEnvs == {<<<<>>>>, <<GivenEnv>>, <<<<>>, GivenEnv>>, <<GivenEnv, <<>>>>}

\* unify(B, termlist, uvars, arg_uvars, envs) with arg_uvars = uvars
UnifyGiven ==
    /\ op = "init"
    /\ arg.arg_uvars = arg.uvars
    /\ \E envs \in GivenEnvs :
           /\ res' = [given |-> envs,
                      returned |-> unify(B, arg.termlist, arg.uvars, arg.arg_uvars,
                                         EnvList(envs))]
           /\ B' = res'.returned.B
    /\ op' = "given"
    /\ UNCHANGED <<arg, axioms, pc, cur, pending, exc>>

NextUnify == Unify \/ UnifyGiven

SpecUnify == InitUnify /\ [][NextUnify]_vars

\* env closes the trigger t and the matcher finds the substituted trigger
ClosesAndMatches(t, env, Bd) ==
    LET r == reduce_term(t, env)
    IN  /\ ~IsErr(r.s)
        /\ UVarsIn(r.s) = {}
        /\ find_problem_term(Bd, TermOf(r.s)).err = ""

\* C2: every environment unify returns leaves no unbound UVar in any
\* trigger of termlist and makes find_problem_term succeed on the
\* substituted trigger, also when arg_uvars is a proper subset of uvars
C2_UnifierSound ==
    (op = "unify" /\ res.err = "" /\ ~res.envs.none) =>
        \A k \in 1..Len(res.envs.list) : \A n \in 1..Len(arg.termlist) :
            ClosesAndMatches(arg.termlist[n], res.envs.list[k], B)


\* two results of unify are the same up to the order and the multiplicity
\* of the environments
SameEnvs(r1, r2) ==
    /\ r1.err = r2.err
    /\ r1.envs.none = r2.envs.none
    /\ Range(r1.envs.list) = Range(r2.envs.list)

\* the environment e has every binding of the environment g
Extends(e, g) == \A u \in DOMAIN g : u \in DOMAIN e /\ e[u] = g[u]

\* C23: when unify is given a list of one or more environments and
\* arg_uvars = uvars, every environment it returns extends one of the
\* given environments and binds every variable of arg_uvars, those chosen
\* at an outer level of the recursion included
C23_ExtendsGivenEnvs ==
    (op = "given" /\ res.returned.err = "") =>
        \A k \in 1..Len(res.returned.envs.list) :
            /\ \E g \in 1..Len(res.given) :
                   Extends(res.returned.envs.list[k], res.given[g])
            /\ \A v \in Range(arg.arg_uvars) :
                   v \in DOMAIN res.returned.envs.list[k]

\* C13: for a fixed blackboard, trigger list and uvars, unify returns the
\* same set of environments for every order of arg_uvars
C13_OrderIndependent ==
    op = "unify" =>
        \A a \in Permuted(arg.arg_uvars) :
            SameEnvs(unify(arg.B, arg.termlist, arg.uvars, a, NoEnvs), res)

\* C14: called without envs, with uvars empty or with arg_uvars empty
\* while uvars is not, unify returns the list [{}] holding exactly the
\* empty environment
C14_InitialEnvs ==
    (op = "unify" /\ (Len(arg.uvars) = 0 \/ Len(arg.arg_uvars) = 0)) =>
        /\ res.err = ""
        /\ ~res.envs.none
        /\ res.envs.list = << <<>> >>

\* the problem terms of Bd that apply the function name to one argument,
\* in ascending order of their indices
Applications(Bd, name) ==
    SelectSeq([k \in 1..Bd.num_terms |-> k - 1],
              LAMBDA i : /\ IsFunc(Bd.term_defs[i + 1])
                         /\ Bd.term_defs[i + 1].d = name
                         /\ Len(Bd.term_defs[i + 1].args) = 1)

\* (c, j) for the argument c * t_j of the problem term t_i
ArgumentOf(Bd, i) ==
    <<Bd.term_defs[i + 1].args[1].c, TermOf(Bd.term_defs[i + 1].args[1]).d>>

\* one environment for every ordered pair of the arguments of the
\* applications apps, the candidate of u outermost
PairEnvs(Bd, apps, u, v) ==
    [n \in 1..(Len(apps) * Len(apps)) |->
        (u :> ArgumentOf(Bd, apps[((n - 1) \div Len(apps)) + 1]))
            @@ (v :> ArgumentOf(Bd, apps[((n - 1) % Len(apps)) + 1]))]

\* the trigger lists [f(u), f(v)] of two variables
IsMonotoneTriggers(termlist) ==
    /\ Len(termlist) = 2
    /\ \E u, v \in 1..NumUVars :
           /\ u # v
           /\ termlist = <<FuncTerm(f, <<STerm(F1, UVar(u))>>),
                           FuncTerm(f, <<STerm(F1, UVar(v))>>)>>

\* C15: for the triggers f(u), f(v) and a blackboard with exactly m
\* applications f(c_k * t_jk), unify returns exactly m * m environments,
\* one for every ordered pair of the arguments, in ascending order of the
\* indices of the applications, the candidate of the first variable of
\* arg_uvars outermost
C15_MonotonePairs ==
    (op = "unify" /\ IsMonotoneTriggers(arg.termlist)) =>
        /\ res.err = ""
        /\ ~res.envs.none
        /\ res.envs.list = PairEnvs(arg.B, Applications(arg.B, f),
                                    arg.arg_uvars[1], arg.arg_uvars[2])

\* unify returned four environments for f(u1), f(u2) on a blackboard with
\* two applications of f, one of them to a scaled problem term
C15_Witness ==
    /\ op = "unify"
    /\ IsMonotoneTriggers(arg.termlist)
    /\ Len(Applications(arg.B, f)) = 2
    /\ \E k \in 1..2 : ArgumentOf(arg.B, Applications(arg.B, f)[k])[1] # F1
    /\ Len(res.envs.list) = 4

(***************************************************************************)
(* instantiate on bounded blackboards and axioms.  A clause of a formula   *)
(* in conjunctive normal form is the record [triggers, literals]; the      *)
(* axiom made from it quantifies the variables of its triggers and         *)
(* literals.                                                               *)
(***************************************************************************)
Clause(triggers, literals) == [triggers |-> triggers, literals |-> literals]

\* formulas.Axiom(c)
AxiomOf(c) ==
    Axiom(Ascending(UNION ({UVarsIn(c.triggers[k]) : k \in 1..Len(c.triggers)}
                           \cup {UVarsIn(c.literals[k].term1) \cup UVarsIn(c.literals[k].term2) :
                                    k \in 1..Len(c.literals)})),
          c.triggers, TriggerArgVars(c.triggers), c.literals)

fu(c, u) == FuncTerm(f, <<STerm(c, UVar(u))>>)

\* forall u. f(u) >= 0
NonNegative ==
    Clause(<<fu(F1, 1)>>, <<TermComparison(STerm(F1, fu(F1, 1)), GE, zero)>>)
\* forall u v. u >= v or f(u) < f(v)
Monotone ==
    Clause(<<fu(F1, 1), fu(F1, 2)>>,
           <<TermComparison(STerm(F1, UVar(1)), GE, STerm(F1, UVar(2))),
             TermComparison(STerm(F1, fu(F1, 1)), LT, STerm(F1, fu(F1, 2)))>>)
\* forall u. f(u) > u^MaxExp
AbovePower ==
    Clause(<<fu(F1, 1)>>,
           <<TermComparison(STerm(F1, fu(F1, 1)), GT,
                            STerm(F1, MulTerm(<<MulPair(UVar(1), MaxExp)>>)))>>)
\* forall u. f(MaxCoeff * u) = MaxCoeff * f(u)
Homogeneous ==
    Clause(<<fu(F1, 1)>>,
           <<TermComparison(STerm(F1, fu(FInt(MaxCoeff), 1)), EQ,
                            STerm(FInt(MaxCoeff), fu(F1, 1)))>>)

ModelClauses == {NonNegative, Monotone, AbovePower, Homogeneous}

InitInstantiate ==
    /\ op = "init"
    /\ B \in UnifyBoards
    /\ arg \in {[axiom |-> AxiomOf(c), B |-> B] : c \in ModelClauses}
    /\ res = <<>>
    /\ axioms = <<>> /\ pc = "idle" /\ cur = 0 /\ pending = <<>> /\ exc = ""

\* what instantiate returned or raised, and the blackboard it left
InstantiateResult(r) ==
    /\ res' = [err |-> r.err, clauses |-> r.clauses]
    /\ B' = r.B

\* instantiate(axiom, B)
Instantiate ==
    /\ op = "init"
    /\ InstantiateResult(instantiate(arg.axiom, B))
    /\ op' = "instantiate"
    /\ UNCHANGED <<arg, axioms, pc, cur, pending, exc>>

NextInstantiate == Instantiate

SpecInstantiate == InitInstantiate /\ [][NextInstantiate]_vars

\* the environments unify returns for the axiom on the blackboard
\* instantiate was given
EnvsFor(axiom, Bd) ==
    EnvsOf(unify(Bd, axiom.triggers, axiom.vars, axiom.trig_arg_vars, NoEnvs))

\* C9: for each environment unify returns for the axiom, instantiate
\* produces one clause, with one literal per literal of the axiom, in
\* the axiom's order and with the same comparison; a side the matcher
\* does not find is interned, not dropped
C9_NoClauseLost ==
    (op = "instantiate" /\ EnvsFor(arg.axiom, arg.B) # <<>>) =>
        /\ res.err = ""
        /\ Len(res.clauses) = Len(EnvsFor(arg.axiom, arg.B))
        /\ \A k \in 1..Len(res.clauses) :
               /\ Len(res.clauses[k]) = Len(arg.axiom.literals)
               /\ \A n \in 1..Len(res.clauses[k]) :
                      /\ res.clauses[k][n].comp = arg.axiom.literals[n].comp
                      /\ TermOf(res.clauses[k][n].term1).d < B.num_terms
                      /\ TermOf(res.clauses[k][n].term2).d < B.num_terms

(***************************************************************************)
(* The function module: FunctionModule(axioms), add_axiom and              *)
(* update_blackboard (function_module.py:471-495).                         *)
(*                                                                         *)
(*   axioms   self.axioms                                                  *)
(*   B        the blackboard given to update_blackboard                    *)
(*   pc       "idle" before the first call and when the last call of       *)
(*            update_blackboard returned, "raised" when an exception left  *)
(*            it; inside update_blackboard "loop" at the head of the loop  *)
(*            over the axioms and "assert" inside the loop over the        *)
(*            clauses                                                      *)
(*   cur      the position in self.axioms and in the clauses               *)
(*   pending  the clauses instantiate returned for the current axiom       *)
(*   exc      the exception that left update_blackboard                    *)
(*   arg      history: the formulas given so far, in the order given       *)
(*   res      history: the number of calls of update_blackboard, the calls *)
(*            of assert_clause made, and the environments unify returned   *)
(*            for the current axiom                                        *)
(***************************************************************************)
MaxFormulas == 2
MaxCalls == 1

\* a formula is a conjunction of clauses; formulas.cnf(formula)
Formula(clauses) == [conj |-> clauses]
cnf(formula) == formula.conj

ModelFormulas ==
    {Formula(<<NonNegative>>), Formula(<<Monotone>>),
     Formula(<<Homogeneous, AbovePower>>)}

\* self.axioms.extend(formulas.Axiom(c) for c in clauses)
Extend(axs, clauses) == axs \o [k \in 1..Len(clauses) |-> AxiomOf(clauses[k])]

RECURSIVE FunctionModule(_, _, _)
\* __init__: the loop over the formulas given, from position k
FunctionModule(formulas, k, axs) ==
    IF k > Len(formulas) THEN axs
    ELSE FunctionModule(formulas, k + 1, Extend(axs, cnf(formulas[k])))

add_axiom_front(axs, axiom) == [k \in 1..Len(cnf(axiom)) |-> AxiomOf(cnf(axiom)[k])] \o axs
add_axiom(axs, axiom) == Extend(axs, cnf(axiom))

\* B.assert_clause(*c): the clause is handed to the blackboard
assert_clause(Bd, c) == [Bd EXCEPT !.clauses = Append(@, c)]

\* control after B.assert_clause(*c) on line 495 returned (e = "") or
\* raised e: nothing in update_blackboard catches an exception
AfterAssertCaught(e, at, clauses) ==
    IF at.c < Len(clauses)
    THEN [pc |-> "assert", cur |-> [at EXCEPT !.c = @ + 1], exc |-> ""]
    ELSE [pc |-> "loop", cur |-> [a |-> at.a + 1, c |-> 1], exc |-> ""]
AfterAssert(e, at, clauses) ==
    IF e # "" THEN [pc |-> "raised", cur |-> at, exc |-> e]
    ELSE IF at.c < Len(clauses)
    THEN [pc |-> "assert", cur |-> [at EXCEPT !.c = @ + 1], exc |-> ""]
    ELSE [pc |-> "loop", cur |-> [a |-> at.a + 1, c |-> 1], exc |-> ""]

\* blackboards given to update_blackboard
LifeBoards == {b \in UnifyBoards : b.equalities = <<>>}

Given(formula, by) == [formula |-> formula, by |-> by]

Init ==
    /\ op = "init"
    /\ arg \in UNION {[1..n -> {Given(fm, "constructor") : fm \in ModelFormulas}] :
                        n \in 0..MaxFormulas}
    /\ axioms = FunctionModule([k \in 1..Len(arg) |-> arg[k].formula], 1, <<>>)
    /\ B \in LifeBoards
    /\ res = [calls |-> 0, log |-> <<>>, envs |-> <<>>]
    /\ pc = "idle" /\ cur = [a |-> 0, c |-> 0] /\ pending = <<>> /\ exc = ""

\* add_axiom(axiom)
AddAxiom ==
    /\ pc \in {"idle", "raised"}
    /\ Len(arg) < MaxFormulas
    /\ \E fm \in ModelFormulas :
           /\ axioms' = add_axiom(axioms, fm)
           /\ arg' = Append(arg, Given(fm, "add_axiom"))
    /\ op' = "add_axiom"
    /\ UNCHANGED <<res, B, pc, cur, pending, exc>>

\* update_blackboard(B) is called
UpdateBlackboard ==
    /\ pc \in {"idle", "raised"}
    /\ res.calls < MaxCalls
    /\ pc' = "loop"
    /\ cur' = [a |-> 1, c |-> 1]
    /\ pending' = <<>>
    /\ exc' = ""
    /\ res' = [res EXCEPT !.calls = @ + 1, !.envs = <<>>]
    /\ op' = "update_blackboard"
    /\ UNCHANGED <<arg, B, axioms>>

\* control after instantiate(a, B) on line 493 returned r.clauses or raised
\* r.err: an exception leaves update_blackboard
AfterInstantiate(r) ==
    /\ B' = r.B
    /\ pending' = r.clauses
    /\ res' = [res EXCEPT !.envs = r.envs]
    /\ IF r.err # "" THEN pc' = "raised" /\ exc' = r.err /\ cur' = cur
       ELSE IF r.clauses = <<>>
       THEN pc' = "loop" /\ exc' = exc /\ cur' = [a |-> cur.a + 1, c |-> 1]
       ELSE pc' = "assert" /\ exc' = exc /\ cur' = [cur EXCEPT !.c = 1]

\* clauses = instantiate(a, B) for the next axiom a
InstantiateAxiom ==
    /\ pc = "loop"
    /\ cur.a <= Len(axioms)
    /\ AfterInstantiate(instantiate(axioms[cur.a], B))
    /\ op' = "instantiate"
    /\ UNCHANGED <<arg, axioms>>

\* B.assert_clause(*c) for the next clause c; the blackboard may raise
\* Contradiction
AssertClause ==
    /\ pc = "assert"
    /\ \E e \in {"", "Contradiction"} :
           LET after == AfterAssert(e, cur, pending)
           IN  /\ B' = assert_clause(B, pending[cur.c])
               /\ res' = [res EXCEPT !.log =
                             Append(@, [call |-> res.calls, axiom |-> cur.a,
                                        k |-> cur.c, clause |-> pending[cur.c],
                                        raised |-> e # ""])]
               /\ pc' = after.pc /\ cur' = after.cur /\ exc' = after.exc
    /\ op' = "assert_clause"
    /\ UNCHANGED <<arg, axioms, pending>>

\* update_blackboard returns
UpdateReturns ==
    /\ pc = "loop"
    /\ cur.a > Len(axioms)
    /\ pc' = "idle"
    /\ op' = "return"
    /\ UNCHANGED <<arg, res, B, axioms, cur, pending, exc>>

Next == AddAxiom \/ UpdateBlackboard \/ InstantiateAxiom \/ AssertClause
            \/ UpdateReturns

Spec == Init /\ [][Next]_vars

\* the calls of assert_clause made by the call of update_blackboard
\* numbered call for the axiom at position a, in the order made
Asserted(call, a) ==
    SelectSeq(res.log, LAMBDA e : e.call = call /\ e.axiom = a)

\* C8: when assert_clause raises Contradiction inside update_blackboard,
\* that call ends there with Contradiction as its exception, and it
\* asserts no further clause of the same axiom or of a later one
C8_ContradictionPropagates ==
    \A k \in 1..Len(res.log) :
        res.log[k].raised =>
            /\ \A m \in (k + 1)..Len(res.log) : res.log[m].call # res.log[k].call
            /\ res.log[k].call = res.calls =>
                   /\ pc = "raised"
                   /\ exc = "Contradiction"
                   /\ cur = [a |-> res.log[k].axiom, c |-> res.log[k].k]

\* assert_clause raised Contradiction while clauses of the current axiom
\* or later axioms were still to be asserted
C8_Witness ==
    /\ pc = "raised"
    /\ exc = "Contradiction"
    /\ res.log # <<>>
    /\ res.log[Len(res.log)].raised
    /\ cur.c < Len(pending) \/ cur.a < Len(axioms)

\* the axioms of the formulas given so far, the formulas in the order
\* given and the clauses of one formula in the order of its conjunction
RECURSIVE InsertionOrder(_)
InsertionOrder(given) ==
    IF given = <<>> THEN <<>>
    ELSE InsertionOrder(SubSeq(given, 1, Len(given) - 1))
             \o [k \in 1..Len(given[Len(given)].formula.conj) |->
                    AxiomOf(given[Len(given)].formula.conj[k])]

\* the clauses 1..n that instantiate returned for the current axiom are
\* the ones asserted for it in the current call, in that order
AssertedUpTo(n) ==
    /\ Len(Asserted(res.calls, cur.a)) = n
    /\ \A k \in 1..n :
           /\ Asserted(res.calls, cur.a)[k].k = k
           /\ Asserted(res.calls, cur.a)[k].clause = pending[k]

\* clause k comes from the k-th environment unify returned: it has the
\* comparisons of the axiom's literals, and a side of a literal that is a
\* multiple c0 * u of a variable u is c0 times what that environment
\* binds u to
FromEnvs(axiom, envs, clauses) ==
    /\ Len(clauses) = Len(envs)
    /\ \A k \in 1..Len(clauses) :
           /\ Len(clauses[k]) = Len(axiom.literals)
           /\ \A n \in 1..Len(clauses[k]) :
                  /\ clauses[k][n].comp = axiom.literals[n].comp
                  /\ \A v \in DOMAIN envs[k] :
                         /\ TermOf(axiom.literals[n].term1) = UVar(v) =>
                                clauses[k][n].term1 =
                                    STerm(FMul(axiom.literals[n].term1.c, envs[k][v][1]),
                                          IVar(envs[k][v][2]))
                         /\ TermOf(axiom.literals[n].term2) = UVar(v) =>
                                clauses[k][n].term2 =
                                    STerm(FMul(axiom.literals[n].term2.c, envs[k][v][1]),
                                          IVar(envs[k][v][2]))

\* C10: self.axioms holds the axioms in insertion order (the formulas of
\* the constructor in list order, then those of add_axiom in call order);
\* within one call of update_blackboard the clauses are asserted axiom by
\* axiom in that order, and the clauses of one axiom in the order of the
\* environments unify returned
C10_AssertionOrder ==
    /\ axioms = InsertionOrder(arg)
    /\ \A m, n \in 1..Len(res.log) :
           (m < n /\ res.log[m].call = res.log[n].call) =>
               \/ res.log[m].axiom < res.log[n].axiom
               \/ /\ res.log[m].axiom = res.log[n].axiom
                  /\ res.log[m].k < res.log[n].k
    /\ pc = "assert" =>
           /\ AssertedUpTo(cur.c - 1)
           /\ FromEnvs(axioms[cur.a], res.envs, pending)
    /\ (pc = "raised" /\ exc = "Contradiction") => AssertedUpTo(cur.c)
    /\ (pc = "loop" /\ cur.a > 1) =>
           /\ Len(Asserted(res.calls, cur.a - 1)) = Len(pending)
           /\ \A k \in 1..Len(pending) :
                  Asserted(res.calls, cur.a - 1)[k].clause = pending[k]
           /\ \A a \in cur.a..Len(axioms) : Asserted(res.calls, a) = <<>>

\* one call of update_blackboard asserted two clauses of the first axiom
\* and then a clause of the second, the first axiom given to the
\* constructor and the second added by add_axiom
C10_Witness ==
    /\ Len(arg) = 2
    /\ arg[1].by = "constructor"
    /\ arg[2].by = "add_axiom"
    /\ \E m, n \in 1..Len(res.log) :
           /\ m < n
           /\ res.log[m].call = res.log[n].call
           /\ res.log[m].axiom = 1 /\ res.log[m].k = 2
           /\ res.log[n].axiom = 2



(***************************************************************************)
(* Comparisons exercised on bounded sets of scaled terms: the constructor  *)
(* of STerm, TermComparison.canonize, comp_reverse and comp_negate.        *)
(***************************************************************************)
CompareTerms ==
    Atoms \cup {AddTerm(<<STerm(F1, Var(1)), STerm(F1, Var(2))>>),
                FuncTerm(f, <<STerm(F1, Var(1))>>)}
CompareSides == {STerm(c, t) : c \in Coeffs \cup {F0}, t \in CompareTerms}
Comparisons == {GT, GE, EQ, LE, LT, NE}

InitCompare ==
    /\ op = "init"
    /\ arg \in [term1 : CompareSides, comp : Comparisons, term2 : CompareSides]
    /\ res = <<>>
    /\ Idle

\* what TermComparison.canonize returned or raised
Compared(r) ==
    IF "err" \in DOMAIN r
    THEN [err |-> r.err, term1 |-> NoneVal, comp |-> -1, term2 |-> NoneVal]
    ELSE [err |-> "", term1 |-> r.term1, comp |-> r.comp, term2 |-> r.term2]

\* TermComparison(term1, comp, term2).canonize()
CanonizeComparison ==
    /\ op = "init"
    /\ op' = "compare"
    /\ res' = Compared(TermComparisonCanonize(
                           TermComparison(arg.term1, arg.comp, arg.term2)))
    /\ UNCHANGED arg /\ IdleUnchanged

\* STerm(coeff, term): its term and its key
BuildSTerm ==
    /\ op = "init"
    /\ op' = "sterm"
    /\ res' = [term |-> TermOf(STerm(arg.term1.c, arg.term1.args[1])),
               key |-> STermKey(STerm(arg.term1.c, arg.term1.args[1]))]
    /\ UNCHANGED arg /\ IdleUnchanged

\* comp_reverse(comp) and comp_reverse(comp_reverse(comp))
ReverseComparison ==
    /\ op = "init"
    /\ op' = "reverse"
    /\ res' = <<comp_reverse(arg.comp), comp_reverse(comp_reverse(arg.comp))>>
    /\ UNCHANGED arg /\ IdleUnchanged

\* comp_negate(comp) and comp_negate(comp_negate(comp))
NegateComparison ==
    /\ op = "init"
    /\ op' = "negate"
    /\ res' = <<comp_negate(arg.comp), comp_negate(comp_negate(arg.comp))>>
    /\ UNCHANGED arg /\ IdleUnchanged

\* the comparisons a comparison is tested against with ==: itself built
\* again, with the operator negated, with the sides exchanged, and with
\* the term of its left side as left side
Rebuilt(self) ==
    {TermComparison(self.term1, self.comp, self.term2),
     TermComparison(self.term1, comp_negate(self.comp), self.term2),
     TermComparison(self.term2, self.comp, self.term1),
     TermComparison(TermOf(self.term1), self.comp, self.term2)}

\* TermComparison(term1, comp, term2) == other, and whether the keys of
\* the two are the same
EqualComparison ==
    /\ op = "init"
    /\ op' = "eq"
    /\ \E self \in {TermComparison(arg.term1, arg.comp, arg.term2),
                    TermComparison(TermOf(arg.term1), arg.comp, arg.term2)} :
       \E other \in Rebuilt(self) :
           res' = [self |-> self, other |-> other,
                   eq |-> TermComparisonEq(self, other),
                   samekey |-> TermComparisonKey(self) = TermComparisonKey(other)]
    /\ UNCHANGED arg /\ IdleUnchanged

NextCompare ==
    \/ CanonizeComparison
    \/ BuildSTerm
    \/ ReverseComparison
    \/ NegateComparison
    \/ EqualComparison

SpecCompare == InitCompare /\ [][NextCompare]_vars

\* C16: for every comparison a comp b, canonize returns a comparison
\* t1 comp' t2 with t1 a Term and t2 an STerm, where t2 is 0*One or the
\* key of t1 is less than the key of t2's term, also when both sides
\* canonize to the same term
C16_CanonicalComparison ==
    op = "compare" =>
        /\ res.err = ""
        /\ IsTerm(res.term1)
        /\ IsSTerm(res.term2)
        /\ res.term2 = zero \/ Cmp(res.term1, TermOf(res.term2)) < 0

\* C17: for every term t, STerm(0, t) has the term One and the key of
\* STerm(0, One)
C17_ZeroScaled ==
    (op = "sterm" /\ arg.term1.c = F0) =>
        /\ res.term = One
        /\ res.key = STermKey(STerm(F0, One))

\* C20: comp_reverse maps > to <, < to >, >= to <=, <= to >= and fixes =
\* and !=; comp_negate maps > to <=, <= to >, >= to <, < to >=, = to !=
\* and != to =; applying either of them twice gives the operator back
C20_OperatorAlgebra ==
    /\ op = "reverse" =>
           /\ res[1] = CASE arg.comp = GT -> LT [] arg.comp = LT -> GT
                         [] arg.comp = GE -> LE [] arg.comp = LE -> GE
                         [] arg.comp = EQ -> EQ [] arg.comp = NE -> NE
           /\ res[2] = arg.comp
    /\ op = "negate" =>
           /\ res[1] = CASE arg.comp = GT -> LE [] arg.comp = LE -> GT
                         [] arg.comp = GE -> LT [] arg.comp = LT -> GE
                         [] arg.comp = EQ -> NE [] arg.comp = NE -> EQ
           /\ res[2] = arg.comp

\* comp_reverse was applied to != and comp_negate to <=
C20_Witness ==
    \/ op = "reverse" /\ arg.comp = NE /\ res = <<NE, NE>>
    \/ op = "negate" /\ arg.comp = LE /\ res = <<GT, LE>>

\* C21: two TermComparison objects compare equal with == exactly when
\* they have the same key (the keys of term1 and of term2 and the
\* operator); in particular a comparison equals the comparison built
\* again from its operands and operator
C21_EqualIffSameKey ==
    op = "eq" =>
        /\ res.eq <=> res.samekey
        /\ res.other = res.self => res.eq

\* C11: within update_blackboard the clause of an environment is asserted
\* before the literals of the next environment of the same axiom are
\* reduced: when the literals of n environments of the current axiom
\* have been reduced, the clauses of at least the first n - 1 of them
\* have been handed to assert_clause and are on the blackboard
C11_AssertedBeforeNextEnv ==
    (pc = "assert" /\ Len(pending) = Len(res.envs)) =>
        \A n \in 2..Len(pending) :
            /\ Len(Asserted(res.calls, cur.a)) >= n - 1
            /\ \A k \in 1..(n - 1) :
                   \E m \in 1..Len(B.clauses) : B.clauses[m] = pending[k]


\* the vector c * e_i over the problem terms t_0 .. t_(n-1)
UnitRow(n, i, c) == [k \in 1..n |-> IF k = i + 1 THEN c ELSE F0]

\* the vector of the linear combination args, a sequence of scaled IVars
RECURSIVE LinearSum(_, _, _)
LinearSum(args, k, n) ==
    IF k > Len(args) THEN ZeroRow(n)
    ELSE add_list(UnitRow(n, TermOf(args[k]).d, args[k].c), LinearSum(args, k + 1, n))

\* every summand is a scalar multiple of a problem term
IsLinear(t) ==
    /\ IsAdd(t)
    /\ \A k \in 1..Len(t.args) : IsSTerm(t.args[k]) /\ IsIVar(TermOf(t.args[k]))

\* what Bd knows to be 0 as linear combinations of the problem terms: the
\* equalities t_i = c * t_j, the zero-equalities t_i = 0, and t_i = sum for
\* every problem term t_i defined as a sum of scaled problem terms
LinearFacts(Bd) ==
    [k \in 1..Len(Bd.equalities) |->
        add_list(UnitRow(Bd.num_terms, Bd.equalities[k][1], FNeg(F1)),
                 UnitRow(Bd.num_terms, Bd.equalities[k][2], Bd.equalities[k][3]))]
    \o [k \in 1..Len(Bd.zero_equalities) |->
        UnitRow(Bd.num_terms, Bd.zero_equalities[k], F1)]
    \o [k \in 1..Len(SelectSeq(Bd.term_defs, IsLinear)) |->
        add_list(UnitRow(Bd.num_terms,
                         has_name(Bd, SelectSeq(Bd.term_defs, IsLinear)[k])[2], FNeg(F1)),
                 LinearSum(SelectSeq(Bd.term_defs, IsLinear)[k].args, 1, Bd.num_terms))]

\* v with its column j cancelled by the row r, r[j] # 0
Cancel(v, r, j) == add_list(v, scale_list(FNeg(FDiv(v[j], r[j])), r))

\* v reduced by the rows, one row after the other, each row cancelling
\* its first nonzero column j in v and in the rows after it: a linear map
\* of v whose kernel is the span of the rows
RECURSIVE NormalForm(_, _)
NormalAt(v, rows, j) ==
    IF j = 0 THEN NormalForm(v, Tail(rows))
    ELSE NormalForm(Cancel(v, rows[1], j),
                    [k \in 1..(Len(rows) - 1) |-> Cancel(rows[k + 1], rows[1], j)])
NormalForm(v, rows) ==
    IF rows = <<>> THEN v
    ELSE NormalAt(v, rows, FirstPos({k \in 1..Len(rows[1]) : rows[1][k] # F0}))

\* a = c * b for some rational c
MultipleAt(a, b, k) == k # 0 /\ a = scale_list(FDiv(a[k], b[k]), b)
Multiple(a, b) ==
    \/ \A k \in 1..Len(a) : a[k] = F0
    \/ MultipleAt(a, b, FirstPos({k \in 1..Len(b) : b[k] # F0}))

\* the linear facts of Bd entail t = c * t_i for some rational c and some
\* problem term t_i
Entailed(Bd, t) ==
    \E i \in 0..(Bd.num_terms - 1) :
        Multiple(NormalForm(LinearSum(t.args, 1, Bd.num_terms), LinearFacts(Bd)),
                 NormalForm(UnitRow(Bd.num_terms, i, F1), LinearFacts(Bd)))

\* C12: for a sum t of at least two scalar multiples of problem terms
\* such that the equalities and the Add-definitions of B entail
\* t = c * t_i for some problem term t_i, find_problem_term(B, t) returns
\* a pair and raises nothing
C12_MatcherCompleteLinear ==
    (op = "find" /\ IsLinear(arg.t) /\ Len(arg.t.args) >= 2
         /\ Entailed(arg.B, arg.t)) => res.err = ""

====
